---- MODULE Spec2Model ----
(***************************************************************************)
(* A model of the core of the bolt distro-tools package builder:           *)
(*   - BaseXpkg.compare_versions (version algebra),                        *)
(*   - FilterParser (the 'if' expression parser of the specfile),          *)
(*   - Downloader.download_named_tag (tagged blob + symlink publication),  *)
(*   - SourceCache / SourcePackage._locate_archive_file (source cache),    *)
(*   - DebianPackage.assemble_parts (the .bolt writer).                    *)
(* Each component has its own variables, actions and specification; the    *)
(* variables of the other components stay as Init leaves them.             *)
(* Text is modelled as a sequence of one-character strings.                *)
(***************************************************************************)
EXTENDS Integers, Sequences, FiniteSets, TLC

VARIABLES
    \* ---- version algebra (xpkg.py) ----
    va, vb, vc,         \* the version strings handed to compare_versions
    verDone,            \* TRUE once compare_versions has been applied
    rab, rbc, rac,      \* its outcomes for (va,vb), (vb,vc), (va,vc)
    \* ---- filter parser (filterparser.py) ----
    fpExpr,             \* the expression text handed to FilterParser.parse
    fpTerms,            \* the true_terms the parser was constructed with
    fpDone,             \* TRUE once parse has been applied
    fpResult,           \* its outcome
    fpError,            \* the exception it raised: class, message, position
    \* ---- binary package writer (debianpackage.py) ----
    pkContents,         \* self.contents: the content entries, in order
    pkDebug,            \* self.make_debug_pkgs
    pkPacked,           \* TRUE once do_pack has run
    pkBolt,             \* the .bolt files written: "main", "dbg"
    \* ---- downloader (downloader.py) ----
    dlFs,               \* the cache directory: name -> absent, file or symlink
    dlIno,              \* inode -> bytes on disk, and the body it is to hold
    dlPc,               \* the position of the caller in download_named_tag
    dlTag,              \* the tag argument of the call in progress
    dlOldTag,           \* the caller's old_tag ("" when there was no symlink)
    dlCur,              \* the inode of the call's temporary file
    dlGot,              \* bytes of the body received so far
    dlBuf,              \* bytes held in the buffer of the file object f
    dlBufSize,          \* the size of that buffer
    dlCalls,            \* the number of calls made
    dlResult,           \* how the last call ended: "none", "ok", "error"
    \* ---- source cache (sourcecache.py, sourcepackage.py) ----
    scFile,             \* the file at the cache path: present or not, its data
    scLocal,            \* the local candidate: "absent", "good", "bad"
    scDeclared,         \* the sha256sum the spec file declares, or ""
    scPc,               \* per builder: its position
    scCall,             \* per builder: the arguments of find_and_retrieve
    scFetch,            \* per builder: the transfer in progress
    scPkg,              \* per builder: pkg, then archive_file
    scOut,              \* per builder: what unpack read, or the exception
    scTrace,            \* per builder: the layers consulted, in order
    \* ---- filter parser laws (filterparser.py) ----
    lwX,                \* the expression x
    lwY,                \* the expression y
    lwTerms,            \* the true_terms of the parser
    lwDone,             \* TRUE once the texts have been parsed
    lwRes,              \* the outcomes of parse for x, y, !x, x and y, (x)
    \* ---- specfile preprocessor (specfile.py) ----
    sxDoc,              \* the document loaded: parent, tag, 'if' per element
    sxParent,           \* getparent() of each element now (0: None)
    sxSkip,             \* the skip attribute of each element
    sxNext,             \* the element the iteration visits next
    sxRemove,           \* nodes_to_remove, less those already handled
    sxPc,               \* the position in preprocess
    \* ---- binary package build (binarypackage.py, debianpackage.py) ----
    bpDisk,             \* the installed files by inode: nlink, magic and mtime
    bpUid,              \* the user the install step ran as
    bpMakeDebug,        \* make_debug_pkgs
    bpContents,         \* self.contents, in the order of the paths
    bpClock,            \* the second the clock showed at the last step
    bpPc,               \* the position in PackageControl.package
    bpStamp,            \* the seconds data, control and ar were written at
    bpData,             \* the members of data.tar.gz of the primary package
    bpControl,          \* the members of control.tar.gz of the primary package
    bpAr,               \* the ar members of the primary .bolt
    bpDbg,              \* the companion paths in the -dbg package
    \* ---- control metadata (debianpackagemetadata.py) ----
    mdFields,           \* meta_data._fields: the value of each key set
    mdPc,               \* the position in pack_package / assemble_parts
    mdControl,          \* the lines of the control file: key and value
    \* ---- repository index (repoindexer.py) ----
    ixForceFull,        \* RepoIndexer._force_full
    ixSignWith,         \* RepoIndexer._sign_with is set
    ixPool,             \* the .bolt files below repo_dir
    ixDirty,            \* the pool changed since the last update
    ixPackages,         \* Packages.gz: whether it exists, and its body
    ixSigned,           \* which of Packages.sig, InPackages.gz exist
    ixRun,              \* the last update_package_index run
    ixLoaded,           \* what load_package_index read after it
    \* ---- package control (packagecontrol.py) ----
    ctCall,             \* the call: variant, action, packages, flags, environment
    ctPc,               \* new, running, returned or raised
    ctTodo,             \* the calls the action has still to make
    ctLog,              \* the calls that were made and returned
    ctErr,              \* the error raised
    \* ---- requires relation (basepackage.py, binarypackage.py) ----
    dpPc,               \* new, declared, resolved or raised
    dpDeclared,         \* the relation as from_xml built it
    dpSpec,             \* the relation: its list of groups and its index
    dpCall,             \* the last _find_and_register_dependency call
    dpNeeded,           \* the NEEDED libraries handled
    dpErr,              \* the error raised
    \* ---- unpack to disk (libarchive.py) ----
    uaPc,               \* open, unpacked, returned or raised
    uaEntry,            \* the entry read: its pathname and file type
    uaStrip,            \* strip_components
    uaMade,             \* the places created
    uaErr,              \* the error raised
    \* ---- the content list (binarypackage.py) ----
    flPc,               \* init, done or raised
    flDisk,             \* the paths that exist below basedir
    flArch,             \* the architecture of the package
    flSpec,             \* content_spec: the declarations in their order
    flContents,         \* self.contents: the entries in their order
    flErr,              \* the error raised
    \* ---- run a subprocess (subprocess.py) ----
    spPc,               \* the position of the parent in run
    spCheck,            \* the check argument
    spChild,            \* none, running, zombie or reaped
    spOthers,           \* other processes of the child's group run
    spStatus,           \* how the child ended
    spExitNext,         \* exit_next
    spIntr,             \* the interrupt: what, where, and whether the child was reaped
    spKilled,           \* SIGKILL was sent to the group
    spRaised            \* the exception that leaves run

verVars == <<va, vb, vc, verDone, rab, rbc, rac>>

fpVars == <<fpExpr, fpTerms, fpDone, fpResult, fpError>>

pkVars == <<pkContents, pkDebug, pkPacked, pkBolt>>

scVars == <<scFile, scLocal, scDeclared, scPc, scCall, scFetch, scPkg, scOut,
            scTrace>>

dlVars == <<dlFs, dlIno, dlPc, dlTag, dlOldTag, dlCur, dlGot, dlBuf,
            dlBufSize, dlCalls, dlResult>>

lwVars == <<lwX, lwY, lwTerms, lwDone, lwRes>>

sxVars == <<sxDoc, sxParent, sxSkip, sxNext, sxRemove, sxPc>>

bpVars == <<bpDisk, bpUid, bpMakeDebug, bpContents, bpClock, bpPc, bpStamp,
            bpData, bpControl, bpAr, bpDbg>>

mdVars == <<mdFields, mdPc, mdControl>>

ixVars == <<ixForceFull, ixSignWith, ixPool, ixDirty, ixPackages, ixSigned, ixRun, ixLoaded>>

ctVars == <<ctCall, ctPc, ctTodo, ctLog, ctErr>>

dpVars == <<dpPc, dpDeclared, dpSpec, dpCall, dpNeeded, dpErr>>

uaVars == <<uaPc, uaEntry, uaStrip, uaMade, uaErr>>

flVars == <<flPc, flDisk, flArch, flSpec, flContents, flErr>>

spVars == <<spPc, spCheck, spChild, spOthers, spStatus, spExitNext, spIntr,
            spKilled, spRaised>>

vars == <<va, vb, vc, verDone, rab, rbc, rac,
          fpExpr, fpTerms, fpDone, fpResult, fpError,
          pkContents, pkDebug, pkPacked, pkBolt,
          dlFs, dlIno, dlPc, dlTag, dlOldTag, dlCur, dlGot, dlBuf,
          dlBufSize, dlCalls, dlResult,
          scFile, scLocal, scDeclared, scPc, scCall, scFetch, scPkg, scOut,
          scTrace,
          lwX, lwY, lwTerms, lwDone, lwRes,
          sxDoc, sxParent, sxSkip, sxNext, sxRemove, sxPc,
          bpDisk, bpUid, bpMakeDebug, bpContents, bpClock, bpPc, bpStamp,
          bpData, bpControl, bpAr, bpDbg,
          mdFields, mdPc, mdControl,
          ixForceFull, ixSignWith, ixPool, ixDirty, ixPackages, ixSigned,
          ixRun, ixLoaded,
          ctCall, ctPc, ctTodo, ctLog, ctErr,
          dpPc, dpDeclared, dpSpec, dpCall, dpNeeded, dpErr,
          uaPc, uaEntry, uaStrip, uaMade, uaErr,
          flPc, flDisk, flArch, flSpec, flContents, flErr,
          spPc, spCheck, spChild, spOthers, spStatus, spExitNext, spIntr,
          spKilled, spRaised>>

\* What an action of one component leaves alone.
nonVerVars == <<fpVars, pkVars, dlVars, scVars, lwVars, sxVars, bpVars,
                 mdVars, ixVars, ctVars, dpVars, uaVars, flVars, spVars>>

nonFpVars == <<verVars, pkVars, dlVars, scVars, lwVars, sxVars, bpVars,
                mdVars, ixVars, ctVars, dpVars, uaVars, flVars, spVars>>

nonPkVars == <<verVars, fpVars, dlVars, scVars, lwVars, sxVars, bpVars,
                mdVars, ixVars, ctVars, dpVars, uaVars, flVars, spVars>>

nonDlVars == <<verVars, fpVars, pkVars, scVars, lwVars, sxVars, bpVars,
                mdVars, ixVars, ctVars, dpVars, uaVars, flVars, spVars>>

nonScVars == <<verVars, fpVars, pkVars, dlVars, lwVars, sxVars, bpVars,
                mdVars, ixVars, ctVars, dpVars, uaVars, flVars, spVars>>

nonLawsVars == <<verVars, fpVars, pkVars, scVars, dlVars, sxVars, bpVars,
                  mdVars, ixVars, ctVars, dpVars, uaVars, flVars, spVars>>

nonPruneVars == <<verVars, fpVars, pkVars, scVars, dlVars, lwVars, bpVars,
                   mdVars, ixVars, ctVars, dpVars, uaVars, flVars, spVars>>

nonBuildVars == <<verVars, fpVars, pkVars, scVars, dlVars, lwVars, sxVars,
                   mdVars, ixVars, ctVars, dpVars, uaVars, flVars, spVars>>

nonMetaVars == <<verVars, fpVars, pkVars, scVars, dlVars, lwVars, sxVars,
                  bpVars, ixVars, ctVars, dpVars, uaVars, flVars, spVars>>

nonIndexVars == <<verVars, fpVars, pkVars, scVars, dlVars, lwVars, sxVars,
                   bpVars, mdVars, ctVars, dpVars, uaVars, flVars, spVars>>

nonControlVars == <<verVars, fpVars, pkVars, scVars, dlVars, lwVars, sxVars,
                     bpVars, mdVars, ixVars, dpVars, uaVars, flVars, spVars>>

nonDepsVars == <<verVars, fpVars, pkVars, scVars, dlVars, lwVars, sxVars,
                  bpVars, mdVars, ixVars, ctVars, uaVars, flVars, spVars>>

nonUnpackVars == <<verVars, fpVars, pkVars, scVars, dlVars, lwVars, sxVars,
                    bpVars, mdVars, ixVars, ctVars, dpVars, flVars, spVars>>

nonFilesVars == <<verVars, fpVars, pkVars, scVars, dlVars, lwVars, sxVars,
                   bpVars, mdVars, ixVars, ctVars, dpVars, uaVars, spVars>>

nonSubprocessVars == <<verVars, fpVars, pkVars, scVars, dlVars, lwVars,
                        sxVars, bpVars, mdVars, ixVars, ctVars, dpVars,
                        uaVars, flVars>>

(***************************************************************************)
(* Generic helpers on sequences.                                           *)
(***************************************************************************)
Drop(s, n) == SubSeq(s, n + 1, Len(s))

Take(s, n) == SubSeq(s, 1, n)

\* All sequences over alphabet A of length exactly n / at most n.
RECURSIVE SeqsOfLen(_, _)
SeqsOfLen(A, n) ==
    IF n = 0 THEN {<<>>}
    ELSE {Append(s, c) : s \in SeqsOfLen(A, n - 1), c \in A}

SeqsUpTo(A, n) == UNION {SeqsOfLen(A, k) : k \in 0..n}

(***************************************************************************)
(* Version algebra: BaseXpkg.compare_versions.                             *)
(***************************************************************************)
Digits == {"0", "1", "2", "3", "4", "5", "6", "7", "8", "9"}

DigitVal ==
    [c \in Digits |->
        CASE c = "0" -> 0 [] c = "1" -> 1 [] c = "2" -> 2 [] c = "3" -> 3
          [] c = "4" -> 4 [] c = "5" -> 5 [] c = "6" -> 6 [] c = "7" -> 7
          [] c = "8" -> 8 [] c = "9" -> 9]

\* The letters the model's inputs use, with their ASCII codes (ord()).
Letters == {"A", "Z", "a", "b", "c", "r", "z"}

Ord ==
    [c \in Letters |->
        CASE c = "A" -> 65 [] c = "Z" -> 90 [] c = "a" -> 97 [] c = "b" -> 98
          [] c = "c" -> 99 [] c = "r" -> 114 [] c = "z" -> 122]

\* BaseXpkg.CHAR_VALUES: the rank of a character of a non-digit run.
CHAR_VALUES ==
    [c \in {"~", " ", "-", "+", "."} \cup Letters |->
        CASE c = "~" -> 0 [] c = " " -> 1 [] c = "-" -> 2 [] c = "+" -> 3
          [] c = "." -> 4 [] OTHER -> Ord[c]]

\* int() of a run of digits.
RECURSIVE IntOf(_)
IntOf(ds) ==
    IF ds = <<>> THEN 0
    ELSE 10 * IntOf(Take(ds, Len(ds) - 1)) + DigitVal[ds[Len(ds)]]

\* re.match(r"^\d+", s) / re.match(r"^\D+", s): the longest leading run.
RECURSIVE LeadRun(_, _)
LeadRun(s, wantDigit) ==
    IF s = <<>> \/ ((s[1] \in Digits) # wantDigit) THEN <<>>
    ELSE <<s[1]>> \o LeadRun(Tail(s), wantDigit)

\* The character class [-+:~.a-zA-Z0-9] of the upstream part.
UpstreamClass == {"-", "+", ":", "~", "."} \cup Letters \cup Digits

\* (?:-([^-]+))?$ applied to the text that follows the upstream part.
TailMatches(t) ==
    \/ t = <<>>
    \/ /\ Len(t) >= 2
       /\ t[1] = "-"
       /\ \A i \in 2..Len(t) : t[i] # "-"

\* ([-+:~.a-zA-Z0-9]+?)(?:-([^-]+))?$ : the lazy upstream part takes the
\* shortest non-empty prefix after which the tail matches.
SplitLens(r) ==
    {k \in 1..Len(r) :
        /\ \A i \in 1..k : r[i] \in UpstreamClass
        /\ TailMatches(Drop(r, k))}

MinOf(S) == CHOOSE k \in S : \A j \in S : k <= j

NoMatch == [ok |-> FALSE, epoch |-> <<>>, version |-> <<>>, rev |-> <<>>]

MatchRest(ep, r) ==
    LET k == MinOf(SplitLens(r))
    IN [ok |-> TRUE, epoch |-> ep, version |-> Take(r, k),
        rev |-> Drop(r, k + 1)]

\* re.match(r"^(?:(\d+):)?([-+:~.a-zA-Z0-9]+?)(?:-([^-]+))?$", s) with
\* m.groups(default=""): the epoch group is tried first, and dropped when the
\* rest cannot match after it.
VersionMatch(s) ==
    LET d == LeadRun(s, TRUE)
        withEpoch == /\ d # <<>>
                     /\ Len(s) > Len(d)
                     /\ s[Len(d) + 1] = ":"
                     /\ SplitLens(Drop(s, Len(d) + 1)) # {}
    IN IF withEpoch THEN MatchRest(d, Drop(s, Len(d) + 1))
       ELSE IF SplitLens(s) # {} THEN MatchRest(<<>>, s)
       ELSE NoMatch

\* Outcomes of compare_versions: a returned integer or a raised exception.
Ret(v) == [err |-> "none", val |-> v]

Raise(e) == [err |-> e, val |-> 0]

\* p += " " * (n - len(p))
RECURSIVE Pad(_, _)
Pad(p, n) == IF Len(p) >= n THEN p ELSE Pad(Append(p, " "), n)

\* for c_a, c_b in zip(p_a, p_b): compare CHAR_VALUES[c_a], CHAR_VALUES[c_b]
RECURSIVE CompareChars(_, _)
CompareChars(pa, pb) ==
    IF pa = <<>> \/ pb = <<>> THEN Ret(0)
    ELSE IF pa[1] \notin DOMAIN CHAR_VALUES \/ pb[1] \notin DOMAIN CHAR_VALUES
    THEN Raise("KeyError")
    ELSE IF CHAR_VALUES[pa[1]] > CHAR_VALUES[pb[1]] THEN Ret(1)
    ELSE IF CHAR_VALUES[pa[1]] < CHAR_VALUES[pb[1]] THEN Ret(-1)
    ELSE CompareChars(Tail(pa), Tail(pb))

\* One pass of "while v_a or v_b" over one part (upstream or revision),
\* entered in mode "nondigit" or "digit". done = the function returned.
RECURSIVE ComparePart(_, _, _)
ComparePart(v_a, v_b, mode) ==
    IF v_a = <<>> /\ v_b = <<>>
    THEN [done |-> FALSE, out |-> Ret(0), mode |-> mode]
    ELSE IF mode = "nondigit"
    THEN LET p_a == LeadRun(v_a, FALSE)
             p_b == LeadRun(v_b, FALSE)
             n == IF Len(p_a) > Len(p_b) THEN Len(p_a) ELSE Len(p_b)
             c == CompareChars(Pad(p_a, n), Pad(p_b, n))
         IN IF c # Ret(0)
            THEN [done |-> TRUE, out |-> c, mode |-> mode]
            ELSE ComparePart(Drop(v_a, Len(p_a)), Drop(v_b, Len(p_b)),
                             "digit")
    ELSE LET m_a == LeadRun(v_a, TRUE)
             m_b == LeadRun(v_b, TRUE)
             p_a == IF m_a = <<>> THEN <<"0">> ELSE m_a
             p_b == IF m_b = <<>> THEN <<"0">> ELSE m_b
             val_a == IntOf(p_a)
             val_b == IntOf(p_b)
         IN IF val_a > val_b
            THEN [done |-> TRUE, out |-> Ret(1), mode |-> mode]
            ELSE IF val_a < val_b
            THEN [done |-> TRUE, out |-> Ret(-1), mode |-> mode]
            \* v_a = v_a[len(p_a):] also when p_a is the default "0"
            ELSE ComparePart(Drop(v_a, Len(p_a)), Drop(v_b, Len(p_b)),
                             "nondigit")

\* epoch_a = int(epoch_a) if epoch_a else 0
EpochOf(m) == IF m.epoch = <<>> THEN 0 ELSE IntOf(m.epoch)

\* A slip in the epoch test: the two results swapped.
CompareEpochsSwapped(epoch_a, epoch_b) ==
    IF epoch_a > epoch_b THEN -1
    ELSE IF epoch_a < epoch_b THEN 1
    ELSE 0

\* "compare epochs": +1, -1, or 0 to go on with the upstream part.
CompareEpochs(epoch_a, epoch_b) ==
    IF epoch_a > epoch_b THEN 1
    ELSE IF epoch_a < epoch_b THEN -1
    ELSE 0

\* BaseXpkg.compare_versions(a, b). The mode is set once, before the loop over
\* the two parts, and carries over from the upstream part to the revision.
compare_versions(a, b) ==
    LET m_a == VersionMatch(a)
        m_b == VersionMatch(b)
        e == CompareEpochs(EpochOf(m_a), EpochOf(m_b))
        up == ComparePart(m_a.version, m_b.version, "nondigit")
        rv == ComparePart(m_a.rev, m_b.rev, up.mode)
    IN IF e # 0 THEN Ret(e)
       ELSE IF up.done THEN up.out
       ELSE rv.out

(***************************************************************************)
(* Inputs of the version algebra.                                          *)
(***************************************************************************)
MaxVerLen == 2

VerAlphabet == {"1", "a", ".", "-", ":", "_"}

Str_1_2_3_1 == <<"1", ".", "2", ".", "3", "-", "1">>

Str_1_2_3_2 == <<"1", ".", "2", ".", "3", "-", "2">>

Str_1c0_1 == <<"1", ":", "0", "-", "1">>

Str_2_1 == <<"2", "-", "1">>

Str_1_0rc1_1 == <<"1", ".", "0", "~", "r", "c", "1", "-", "1">>

Str_1_0_1 == <<"1", ".", "0", "-", "1">>

VersionLiterals ==
    {Str_1_2_3_1, Str_1_2_3_2, Str_1c0_1, Str_2_1, Str_1_0rc1_1, Str_1_0_1,
     <<"1", "0", ":", "a">>, <<"2", ":", "a">>, <<"0", ":", "a">>,
     <<"1", "~">>, <<"1", "+">>, <<"1", "Z">>, <<"a", ":", "b">>,
     <<"a", ":", "c">>, <<"a", "_">>, <<"1", "-", "a", "_">>}

VersionInputs == SeqsUpTo(VerAlphabet, MaxVerLen) \cup VersionLiterals

MaxRevLen == 1

TripleUpstreams == {<<"a">>, <<"a", "0">>, <<"1">>}

TripleRevAlphabet == {"a", "b", "c", "1"}

TripleInputs ==
    {u \o <<"-">> \o r :
        u \in TripleUpstreams,
        r \in SeqsUpTo(TripleRevAlphabet, MaxRevLen) \ {<<>>}}

NotRun == [err |-> "notrun", val |-> 0]

\* The version variables of a run that does not use the version algebra.
IdleVersion ==
    /\ va = <<>> /\ vb = <<>> /\ vc = <<>>
    /\ verDone = FALSE
    /\ rab = NotRun /\ rbc = NotRun /\ rac = NotRun

InitVersion ==
    /\ va \in VersionInputs
    /\ vb \in VersionInputs
    /\ vc = <<>>
    /\ verDone = FALSE
    /\ rab = NotRun /\ rbc = NotRun /\ rac = NotRun

InitVersion3 ==
    /\ va \in TripleInputs
    /\ vb \in TripleInputs
    /\ vc \in TripleInputs
    /\ verDone = FALSE
    /\ rab = NotRun /\ rbc = NotRun /\ rac = NotRun

\* One call compare_versions(va, vb).
CompareVersions ==
    /\ ~verDone
    /\ vc = <<>>
    /\ verDone' = TRUE
    /\ rab' = compare_versions(va, vb)
    /\ UNCHANGED <<va, vb, vc, rbc, rac>>
    /\ UNCHANGED nonVerVars

\* The three calls a sort makes on three versions.
CompareTriple ==
    /\ ~verDone
    /\ vc # <<>>
    /\ verDone' = TRUE
    /\ rab' = compare_versions(va, vb)
    /\ rbc' = compare_versions(vb, vc)
    /\ rac' = compare_versions(va, vc)
    /\ UNCHANGED <<va, vb, vc>>
    /\ UNCHANGED nonVerVars

(***************************************************************************)
(* Filter parser: FilterParser.tokenize, parse, _p_expr.                   *)
(***************************************************************************)
\* The characters of the model's expressions, by the token regexes.
WordStart ==
    {"a", "b", "c", "d", "e", "f", "h", "l", "n", "o", "r", "s", "t", "u",
     "x"}

WordChars == WordStart \cup Digits \cup {"-", "_"}

Whitespace == {" "}

\* The longest run of characters of class C at the head of s.
RECURSIVE RunOf(_, _)
RunOf(s, C) ==
    IF s = <<>> \/ s[1] \notin C THEN <<>>
    ELSE <<s[1]>> \o RunOf(Tail(s), C)

Token(typ, tok, pos) == [typ |-> typ, tok |-> tok, pos |-> pos]

\* A word token that spells an operator takes the operator's type.
WordToken(w, pos) ==
    IF w = <<"a", "n", "d">> THEN Token("and", w, pos)
    ELSE IF w = <<"o", "r">> THEN Token("or", w, pos)
    ELSE Token("word", w, pos)

\* FilterParser.tokenize from character i (1-based) of expr: the alternatives
\* open, close, word, not, whitespace, unknown are tried in this order; an
\* unknown token raises at once.
RECURSIVE TokenizeFrom(_, _)
TokenizeFrom(expr, i) ==
    IF i > Len(expr) THEN [err |-> "none", toks |-> <<>>, pos |-> 0]
    ELSE LET c == expr[i]
             rest == Drop(expr, i - 1)
             one(typ) ==
                 LET more == TokenizeFrom(expr, i + 1)
                 IN IF more.err # "none" THEN more
                    ELSE [err |-> "none", pos |-> 0,
                          toks |-> <<Token(typ, <<c>>, i)>> \o more.toks]
         IN IF c = "(" THEN one("open")
            ELSE IF c = ")" THEN one("close")
            ELSE IF c \in WordStart
            THEN LET w == <<c>> \o RunOf(Tail(rest), WordChars)
                     more == TokenizeFrom(expr, i + Len(w))
                 IN IF more.err # "none" THEN more
                    ELSE [err |-> "none", pos |-> 0,
                          toks |-> <<WordToken(w, i)>> \o more.toks]
            ELSE IF c = "!" THEN one("not")
            ELSE IF c \in Whitespace
            THEN TokenizeFrom(expr, i + Len(RunOf(rest, Whitespace)))
            ELSE [err |-> "SyntaxError", toks |-> <<>>, pos |-> i]

tokenize(expr) == TokenizeFrom(expr, 1)

\* self.symbols.get(tok, False): "true" and "false" are entered first, then
\* every term of true_terms is set to True.
Symbol(true_terms, tok) ==
    IF tok \in true_terms THEN "True"
    ELSE IF tok = <<"t", "r", "u", "e">> THEN "True"
    ELSE "False"

\* The recursion limit of _p_expr.
MaxLevel == 64

\* A negation that negates nothing.
PyNotSame(v) == v

PyNot(v) == IF v = "True" THEN "False" ELSE "True"

PyAnd(x, y) == IF x = "True" THEN y ELSE x

PyOr(x, y) == IF x = "True" THEN x ELSE y

\* The outcome of _p_expr: an exception or a value ("True", "False", "None"),
\* and the tokens left in the shared list.
PRaise(e, toks) ==
    [err |-> e, res |-> "None", rest |-> toks, msg |-> "", pos |-> 0]

\* An error that is swallowed: the caller gets a value.
PSyntaxLost(msg, pos, toks) ==
    [err |-> "none", res |-> "True", rest |-> toks, msg |-> "", pos |-> 0]

\* raise FilterParser.SyntaxError(msg.format(pos))
PSyntax(msg, pos, toks) ==
    [err |-> "SyntaxError", res |-> "None", rest |-> toks, msg |-> msg,
     pos |-> pos]

PReturn(v, toks) ==
    [err |-> "none", res |-> v, rest |-> toks, msg |-> "", pos |-> 0]

RECURSIVE p_expr(_, _, _, _)
RECURSIVE p_loop(_, _, _, _, _)

\* The end of _p_expr: "if lvl == 0: assert not tokens; return result".
p_end(tokens, lvl, result) ==
    IF lvl = 0 /\ tokens # <<>> THEN PRaise("AssertionError", tokens)
    ELSE PReturn(result, tokens)

\* The "while tokens" loop of _p_expr, with the current result.
p_loop(T, tokens, lvl, short_cut, result) ==
    IF tokens = <<>> THEN p_end(tokens, lvl, result)
    ELSE
    LET typ == tokens[1].typ
        tok == tokens[1].tok
        pos == tokens[1].pos
        popped == Tail(tokens)
    IN
    CASE typ = "not" ->
            IF result # "None" THEN PSyntax("syntax error", pos, popped)
            ELSE LET sub == p_expr(T, popped, lvl + 1, TRUE)
                 IN IF sub.err # "none" THEN sub
                    ELSE IF sub.res = "None"
                    THEN PSyntax("not: no operand", pos, sub.rest)
                    ELSE IF short_cut
                    THEN p_end(sub.rest, lvl, PyNot(sub.res))
                    ELSE p_loop(T, sub.rest, lvl, short_cut, PyNot(sub.res))
      [] typ = "and" ->
            IF result = "None" THEN PSyntax("and: no left", pos, popped)
            ELSE LET sub == p_expr(T, popped, lvl + 1, TRUE)
                 IN IF sub.err # "none" THEN sub
                    ELSE IF sub.res = "None"
                    THEN PSyntax("and: no right", pos, sub.rest)
                    ELSE p_loop(T, sub.rest, lvl, short_cut,
                                PyAnd(result, sub.res))
      [] typ = "or" ->
            IF result = "None" THEN PSyntax("or: no left", pos, popped)
            ELSE LET sub == p_expr(T, popped, lvl + 1, FALSE)
                 IN IF sub.err # "none" THEN sub
                    ELSE IF sub.res = "None"
                    THEN PSyntax("or: no right", pos, sub.rest)
                    ELSE p_loop(T, sub.rest, lvl, short_cut,
                                PyOr(result, sub.res))
      [] typ = "word" ->
            IF result # "None" THEN PSyntax("syntax error", pos, popped)
            ELSE IF short_cut THEN p_end(popped, lvl, Symbol(T, tok))
            ELSE p_loop(T, popped, lvl, short_cut, Symbol(T, tok))
      [] typ = "open" ->
            IF result # "None" THEN PSyntax("syntax error", pos, popped)
            ELSE LET sub == p_expr(T, popped, lvl + 1, FALSE)
                 IN IF sub.err # "none" THEN sub
                    ELSE IF sub.rest = <<>> \/ sub.rest[1].typ # "close"
                    THEN PSyntax("no closing", pos, sub.rest)
                    ELSE IF short_cut
                    THEN p_end(Tail(sub.rest), lvl, sub.res)
                    ELSE p_loop(T, Tail(sub.rest), lvl, short_cut, sub.res)
      [] typ = "close" ->
            IF lvl = 0 THEN PSyntax("no opening", pos, tokens)
            ELSE p_end(tokens, lvl, result)

\* FilterParser._p_expr(tokens, lvl, short_cut) of a parser with terms T.
p_expr(T, tokens, lvl, short_cut) ==
    IF lvl > MaxLevel THEN PRaise("Error", tokens)
    ELSE p_loop(T, tokens, lvl, short_cut, "None")

\* FilterParser(true_terms).parse(expr)
parse(true_terms, expr) ==
    LET t == tokenize(expr)
        r == p_expr(true_terms, t.toks, 0, FALSE)
    IN IF t.err # "none" THEN [err |-> t.err, val |-> "None"]
       ELSE IF r.err # "none" THEN [err |-> r.err, val |-> "None"]
       ELSE IF r.res = "None" THEN [err |-> "none", val |-> "True"]
       ELSE [err |-> "none", val |-> r.res]

\* The exception FilterParser(true_terms).parse(expr) raises: its class, the
\* message it was formatted from and the position the message carries.
parse_error(true_terms, expr) ==
    LET t == tokenize(expr)
        r == p_expr(true_terms, t.toks, 0, FALSE)
    IN IF t.err # "none"
       THEN [err |-> t.err, msg |-> "invalid token", pos |-> t.pos]
       ELSE [err |-> r.err, msg |-> r.msg, pos |-> r.pos]

(***************************************************************************)
(* Inputs of the filter parser: expressions spelled from a few lexemes,    *)
(* and the expressions of the built-in tests with a for aarch64/musl and   *)
(* b for s390x.                                                            *)
(***************************************************************************)
MaxLexemes == 4

Lexemes ==
    {<<"a", " ">>, <<"b", " ">>, <<"f", "a", "l", "s", "e", " ">>,
     <<"a", "n", "d", " ">>, <<"o", "r", " ">>,
     <<"!">>, <<"(">>, <<")">>, <<"#">>}

RECURSIVE Flatten(_)
Flatten(ls) == IF ls = <<>> THEN <<>> ELSE ls[1] \o Flatten(Tail(ls))

W_a == <<"a", " ">>

W_b == <<"b", " ">>

W_and == <<"a", "n", "d", " ">>

W_or == <<"o", "r", " ">>

FilterLiterals ==
    {Flatten(ls) : ls \in
        {<<W_a, W_or, W_a, W_and, W_b>>,
         <<W_b, W_and, W_a, W_or, W_a>>,
         <<<<"(">>, W_a, W_or, W_a, <<")">>, W_and, W_b>>,
         <<W_b, W_and, <<"(">>, W_a, W_or, W_a, <<")">>>>,
         <<<<"!">>, <<"(">>, W_a, W_or, W_b, <<")">>>>,
         <<<<"!">>, <<"!">>, W_a, W_and, <<"!">>, W_b>>,
         <<W_a, W_and, W_a, <<"n", "d", "a">>>>,
         <<<<"t", "r", "u", "e", " ">>, W_and, <<"t", "r", "u", "e">>>>}}

\* The expressions of the built-in tests that expect an error, with the
\* message and the position expected.
ErrorTests ==
    {
     [expr |->
          <<"s", "3", "9", "0", "x", " ", "!", "a", "a", "r", "c", "h", "6",
            "4">>,
      msg |-> "syntax error", pos |-> 7],
     [expr |->
          <<"s", "3", "9", "0", "x", " ", "a", "a", "r", "c", "h", "6",
            "4">>,
      msg |-> "syntax error", pos |-> 7],
     [expr |->
          <<"s", "3", "9", "0", "x", " ", "a", "n", "d", " ", "!">>,
      msg |-> "not: no operand", pos |-> 11],
     [expr |->
          <<"s", "3", "9", "0", "x", " ", "o", "r", " ", "!", "a", "n",
            "d">>,
      msg |-> "and: no left", pos |-> 11],
     [expr |->
          <<"s", "3", "9", "0", "x", " ", "o", "r", " ", "a", "n", "d", " ",
            "!", "a", "a", "r", "c", "h", "6", "4">>,
      msg |-> "and: no left", pos |-> 10],
     [expr |->
          <<"a", "n", "d">>,
      msg |-> "and: no left", pos |-> 1],
     [expr |->
          <<"s", "3", "9", "0", "x", " ", "a", "n", "d", " ", "!", "o",
            "r">>,
      msg |-> "or: no left", pos |-> 12],
     [expr |->
          <<"s", "3", "9", "0", "x", " ", "a", "n", "d", " ", "o", "r", " ",
            "!", "a", "a", "r", "c", "h", "6", "4">>,
      msg |-> "or: no left", pos |-> 11],
     [expr |->
          <<"o", "r">>,
      msg |-> "or: no left", pos |-> 1],
     [expr |->
          <<"s", "3", "9", "0", "x", " ", "a", "n", "d">>,
      msg |-> "and: no right", pos |-> 7],
     [expr |->
          <<"s", "3", "9", "0", "x", " ", "a", "n", "d", " ", "(", ")">>,
      msg |-> "and: no right", pos |-> 7],
     [expr |->
          <<"s", "3", "9", "0", "x", " ", "o", "r">>,
      msg |-> "or: no right", pos |-> 7],
     [expr |->
          <<"s", "3", "9", "0", "x", " ", "o", "r", " ", "(", ")">>,
      msg |-> "or: no right", pos |-> 7],
     [expr |->
          <<"(", "(", ")", "(", ")">>,
      msg |-> "no closing", pos |-> 1],
     [expr |->
          <<")">>,
      msg |-> "no opening", pos |-> 1],
     [expr |->
          <<"a", "a", "r", "c", "h", "6", "4", " ", "(", ")">>,
      msg |-> "syntax error", pos |-> 9]
    }

\* One parenthesis more than _p_expr has levels.
DeepOpen == [i \in 1..(MaxLevel + 1) |-> "("]

FilterInputs ==
    {Flatten(ls) : ls \in SeqsUpTo(Lexemes, MaxLexemes)} \cup FilterLiterals

\* Inputs for the errors of the parser.
SyntaxInputs ==
    {Flatten(ls) : ls \in SeqsUpTo(Lexemes, MaxLexemes)}
        \cup {t.expr : t \in ErrorTests} \cup {DeepOpen}

TermSets == SUBSET {<<"a">>, <<"f", "a", "l", "s", "e">>}

NotParsed == [err |-> "notrun", val |-> "None"]

NoError == [err |-> "none", msg |-> "", pos |-> 0]

\* The filter variables of a run that does not use the filter parser.
IdleFilter ==
    /\ fpExpr = <<>>
    /\ fpTerms = {}
    /\ fpDone = FALSE
    /\ fpResult = NotParsed
    /\ fpError = NoError

InitFilter ==
    /\ fpExpr \in FilterInputs
    /\ fpTerms \in TermSets
    /\ fpDone = FALSE
    /\ fpResult = NotParsed
    /\ fpError = NoError

InitSyntax ==
    /\ fpExpr \in SyntaxInputs
    /\ fpTerms \in {{<<"a">>}}
    /\ fpDone = FALSE
    /\ fpResult = NotParsed
    /\ fpError = NoError

\* One call FilterParser(fpTerms).parse(fpExpr).
Parse ==
    /\ ~fpDone
    /\ fpDone' = TRUE
    /\ fpResult' = parse(fpTerms, fpExpr)
    /\ fpError' = parse_error(fpTerms, fpExpr)
    /\ UNCHANGED <<fpExpr, fpTerms>>
    /\ UNCHANGED nonFpVars

(***************************************************************************)
(* Binary package writer: DebianPackage.do_pack, pack_package,             *)
(* assemble_parts, write_data_part.                                        *)
(***************************************************************************)
MaxEntries == 3

\* The 1024 of "installed_size / 1024" and of "installed_size += 1024".
KiB == 1024

\* The content entries of the model: kind and st_size from attr.stats; for an
\* ELF file, the directory and the size of its debug companion (attr.dbg_info)
\* or "none".
PlainEntry(kind, size) ==
    [kind |-> kind, size |-> size, elf |-> FALSE, dbgDir |-> "none",
     dbgSize |-> 0]

ElfEntry(size, dbgDir, dbgSize) ==
    [kind |-> "file", size |-> size, elf |-> TRUE, dbgDir |-> dbgDir,
     dbgSize |-> dbgSize]

ContentEntries ==
    {PlainEntry("dir", 4096), PlainEntry("symlink", 7),
     PlainEntry("fifo", 0)}
    \cup {PlainEntry("file", n) : n \in {0, 1, 511, 512, 1536}}
    \cup {ElfEntry(2048, "none", 0), ElfEntry(2048, "XX", 300),
          ElfEntry(4000, "YY", 1000)}

\* "if attr.stats.is_file or attr.stats.is_symbolic_link:
\*      installed_size += attr.stats.st_size
\*  else: installed_size += 1024"
EntrySize(e) ==
    IF e.kind \in {"file", "symlink"} THEN e.size ELSE KiB

\* write_data_part: the installed_size accumulated over pkg_contents.
RECURSIVE write_data_part(_)
write_data_part(contents) ==
    IF contents = <<>> THEN 0
    ELSE EntrySize(contents[1]) + write_data_part(Tail(contents))

\* int(installed_size / 1024 + 0.5)
InstalledSizeKB(installed_size) == (2 * installed_size + KiB) \div (2 * KiB)

\* A slip in the member list: data before control.
ArEntryNamesDataFirst == <<"debian-binary", "data.tar.gz", "control.tar.gz">>

\* for entry_name in ["debian-binary", "control.tar.gz", "data.tar.gz"]
ArEntryNames == <<"debian-binary", "control.tar.gz", "data.tar.gz">>

\* assemble_parts: the .bolt written for a content list: the control field
\* Installed-Size, and the ar members in the order of archive.write_entry.
assemble_parts(contents) ==
    [written |-> TRUE,
     installedSize |-> InstalledSizeKB(write_data_part(contents)),
     ar |-> [i \in 1..Len(ArEntryNames) |-> ArEntryNames[i]]]

NoBolt == [written |-> FALSE, installedSize |-> 0, ar |-> <<>>]

\* pack_package(debug_pkg=True): the entries that are ELF files with a debug
\* companion give one file entry each (stats of the companion) ...
RECURSIVE DebugFiles(_)
DebugFiles(contents) ==
    IF contents = <<>> THEN <<>>
    ELSE IF contents[1].kind = "file" /\ contents[1].elf
            /\ contents[1].dbgDir # "none"
         THEN <<PlainEntry("file", contents[1].dbgSize)>>
                  \o DebugFiles(Tail(contents))
         ELSE DebugFiles(Tail(contents))

\* ... and one directory entry for each distinct dirname of a companion.
DebugDirNames(contents) ==
    {contents[i].dbgDir : i \in
        {j \in 1..Len(contents) :
            contents[j].kind = "file" /\ contents[j].elf
                /\ contents[j].dbgDir # "none"}}

RECURSIVE DirEntries(_)
DirEntries(n) ==
    IF n = 0 THEN <<>> ELSE <<PlainEntry("dir", 4096)>> \o DirEntries(n - 1)

\* The content list of the -dbg package: the companions, their directories,
\* and <prefix>/lib/debug and <prefix>/lib/debug/.build-id; empty when there
\* is no companion ("if not contents: return").
\* The order of the entries (sorted by path) does not enter the model.
DebugContents(contents) ==
    IF DebugFiles(contents) = <<>> THEN <<>>
    ELSE DebugFiles(contents)
            \o DirEntries(Cardinality(DebugDirNames(contents)) + 2)

\* pack_package(debug_pkg)
pack_package(contents, debug_pkg) ==
    IF ~debug_pkg THEN assemble_parts(contents)
    ELSE IF DebugContents(contents) = <<>> THEN NoBolt
    ELSE assemble_parts(DebugContents(contents))

\* The package variables before the build has expanded any content.
IdlePack ==
    /\ pkContents = <<>>
    /\ pkDebug = FALSE
    /\ pkPacked = FALSE
    /\ pkBolt = [f \in {"main", "dbg"} |-> NoBolt]

InitPack ==
    /\ pkContents = <<>>
    /\ pkDebug \in BOOLEAN
    /\ pkPacked = FALSE
    /\ pkBolt = [f \in {"main", "dbg"} |-> NoBolt]

\* The content expansion adds one entry to self.contents.
AddEntry ==
    /\ ~pkPacked
    /\ Len(pkContents) < MaxEntries
    /\ \E e \in ContentEntries : pkContents' = Append(pkContents, e)
    /\ UNCHANGED <<pkDebug, pkPacked, pkBolt>>
    /\ UNCHANGED nonPkVars

\* DebianPackage.do_pack: the primary package, then the -dbg package when
\* make_debug_pkgs is set.
DoPack ==
    /\ ~pkPacked
    /\ pkPacked' = TRUE
    /\ pkBolt' = [f \in {"main", "dbg"} |->
                    IF f = "main" THEN pack_package(pkContents, FALSE)
                    ELSE IF pkDebug THEN pack_package(pkContents, TRUE)
                    ELSE NoBolt]
    /\ UNCHANGED <<pkContents, pkDebug>>
    /\ UNCHANGED nonPkVars

(***************************************************************************)
(* Downloader.download_named_tag, called as DebianPackageCache does: with  *)
(* a tag that differs from the one the symlink points at, and followed by  *)
(* the removal of the old blob when the call succeeded.                    *)
(* Sizes are in units of 4096 bytes.                                       *)
(***************************************************************************)
MaxCalls == 3

MaxBody == 3

\* response.read(8192): the most one chunk holds.
ReadSize == 2

\* The buffer of the file object NamedTemporaryFile returns (default
\* buffering): the block size of the file system, 4096 or 8192 bytes.
BufSizes == {1, 2}

Tags == {"t1", "t2"}

TmpName == "tmp"

LinkName == "link"

Names == Tags \cup {TmpName, LinkName}

Absent == [kind |-> "absent", ino |-> 0, target |-> ""]

FileOf(i) == [kind |-> "file", ino |-> i, target |-> ""]

LinkTo(n) == [kind |-> "link", ino |-> 0, target |-> n]

Inodes == 1..MaxCalls

\* os.path.exists(name): symlinks are followed.
Exists(fs, n) ==
    \/ fs[n].kind = "file"
    \/ fs[n].kind = "link" /\ fs[fs[n].target].kind = "file"

\* os.path.islink(name)
IsLink(fs, n) == fs[n].kind = "link"

\* f.write(chunk) on the buffered file object: bytes that fit the buffer stay
\* in it; otherwise the buffer is flushed, and a chunk larger than the buffer
\* is written through.
BufferedWrite(disk, buf, n, size) ==
    IF buf + n <= size THEN [disk |-> disk, buf |-> buf + n]
    ELSE IF n > size THEN [disk |-> disk + buf + n, buf |-> 0]
    ELSE [disk |-> disk + buf, buf |-> n]

IdleDownload ==
    /\ dlFs = [n \in Names |-> Absent]
    /\ dlIno = [i \in Inodes |-> [size |-> 0, total |-> 0]]
    /\ dlPc = "idle"
    /\ dlTag = ""
    /\ dlOldTag = ""
    /\ dlCur = 0
    /\ dlGot = 0
    /\ dlBuf = 0
    /\ dlBufSize = 1
    /\ dlCalls = 0
    /\ dlResult = "none"

InitDownload == IdleDownload

\* The caller reads old_tag off the symlink, takes a new tag and calls
\* download_named_tag, which creates the temporary file.
DlCall ==
    /\ dlPc = "idle"
    /\ dlCalls < MaxCalls
    /\ \E tag \in Tags, total \in 1..MaxBody :
        LET old == IF IsLink(dlFs, LinkName) THEN dlFs[LinkName].target
                   ELSE ""
            i == dlCalls + 1
        IN /\ tag # old
           /\ dlTag' = tag
           /\ dlOldTag' = old
           /\ dlCur' = i
           /\ dlIno' = [dlIno EXCEPT ![i] = [size |-> 0, total |-> total]]
           /\ dlFs' = [dlFs EXCEPT ![TmpName] = FileOf(i)]
    /\ dlCalls' = dlCalls + 1
    /\ dlGot' = 0
    /\ dlBuf' = 0
    /\ \E size \in BufSizes : dlBufSize' = size
    /\ dlResult' = "none"
    /\ dlPc' = "write"
    /\ UNCHANGED nonDlVars

\* for chunk in it: f.write(chunk)
DlWriteChunk ==
    /\ dlPc = "write"
    /\ dlGot < dlIno[dlCur].total
    /\ LET rest == dlIno[dlCur].total - dlGot
           n == IF rest < ReadSize THEN rest ELSE ReadSize
           w == BufferedWrite(dlIno[dlCur].size, dlBuf, n, dlBufSize)
       IN /\ dlGot' = dlGot + n
          /\ dlBuf' = w.buf
          /\ dlIno' = [dlIno EXCEPT ![dlCur].size = w.disk]
    /\ UNCHANGED <<dlFs, dlPc, dlTag, dlOldTag, dlCur, dlBufSize, dlCalls,
                   dlResult>>
    /\ UNCHANGED nonDlVars

\* The body has been read to its end: on to os.fchmod.
DlBodyDone ==
    /\ dlPc = "write"
    /\ dlGot = dlIno[dlCur].total
    /\ dlPc' = "chmod"
    /\ UNCHANGED <<dlFs, dlIno, dlTag, dlOldTag, dlCur, dlGot, dlBuf,
                   dlBufSize, dlCalls, dlResult>>
    /\ UNCHANGED nonDlVars

\* os.fchmod(f.fileno(), permissions)
DlChmod ==
    /\ dlPc = "chmod"
    /\ dlPc' = "rename_blob"
    /\ UNCHANGED <<dlFs, dlIno, dlTag, dlOldTag, dlCur, dlGot, dlBuf,
                   dlBufSize, dlCalls, dlResult>>
    /\ UNCHANGED nonDlVars

\* os.rename(f.name, blob_file)
DlRenameBlob ==
    /\ dlPc = "rename_blob"
    /\ dlFs' = [dlFs EXCEPT ![dlTag] = dlFs[TmpName], ![TmpName] = Absent]
    /\ dlPc' = "symlink"
    /\ UNCHANGED <<dlIno, dlTag, dlOldTag, dlCur, dlGot, dlBuf, dlBufSize,
                   dlCalls, dlResult>>
    /\ UNCHANGED nonDlVars

\* os.symlink(os.path.basename(blob_file), f.name)
DlSymlink ==
    /\ dlPc = "symlink"
    /\ dlFs' = [dlFs EXCEPT ![TmpName] = LinkTo(dlTag)]
    /\ dlPc' = "rename_link"
    /\ UNCHANGED <<dlIno, dlTag, dlOldTag, dlCur, dlGot, dlBuf, dlBufSize,
                   dlCalls, dlResult>>
    /\ UNCHANGED nonDlVars

\* os.rename(f.name, symlink)
DlRenameLink ==
    /\ dlPc = "rename_link"
    /\ dlFs' = [dlFs EXCEPT ![LinkName] = dlFs[TmpName], ![TmpName] = Absent]
    /\ dlPc' = "close_ok"
    /\ UNCHANGED <<dlIno, dlTag, dlOldTag, dlCur, dlGot, dlBuf, dlBufSize,
                   dlCalls, dlResult>>
    /\ UNCHANGED nonDlVars

\* Any step inside the try block raises: the transfer (DownloadError from
\* get), fchmod, a rename or symlink (OSError). Control goes to the handler.
DlFail ==
    /\ dlPc \in {"write", "chmod", "rename_blob", "symlink", "rename_link"}
    /\ dlPc' = "h_tmp"
    /\ UNCHANGED <<dlFs, dlIno, dlTag, dlOldTag, dlCur, dlGot, dlBuf,
                   dlBufSize, dlCalls, dlResult>>
    /\ UNCHANGED nonDlVars

\* except: if os.path.exists(f.name) or os.path.islink(f.name):
\*             os.unlink(f.name)
DlHandlerTmp ==
    /\ dlPc = "h_tmp"
    /\ dlFs' = IF Exists(dlFs, TmpName) \/ IsLink(dlFs, TmpName)
               THEN [dlFs EXCEPT ![TmpName] = Absent]
               ELSE dlFs
    /\ dlPc' = "h_blob"
    /\ UNCHANGED <<dlIno, dlTag, dlOldTag, dlCur, dlGot, dlBuf, dlBufSize,
                   dlCalls, dlResult>>
    /\ UNCHANGED nonDlVars

\* except: if os.path.exists(blob_file):
\*             if os.path.islink(symlink) and
\*                     os.path.basename(os.readlink(symlink)) != tag:
\*                 os.unlink(blob_file)
DlHandlerBlob ==
    /\ dlPc = "h_blob"
    /\ dlFs' = IF /\ Exists(dlFs, dlTag)
                  /\ IsLink(dlFs, LinkName)
                  /\ dlFs[LinkName].target # dlTag
               THEN [dlFs EXCEPT ![dlTag] = Absent]
               ELSE dlFs
    /\ dlPc' = "close_err"
    /\ UNCHANGED <<dlIno, dlTag, dlOldTag, dlCur, dlGot, dlBuf, dlBufSize,
                   dlCalls, dlResult>>
    /\ UNCHANGED nonDlVars

\* The end of the with block: f is closed, which writes what the buffer
\* holds to the file f was opened on, under whatever name it now has.
\* After an exception, DownloadError goes to the caller.
DlClose ==
    /\ dlPc \in {"close_ok", "close_err"}
    /\ dlIno' = [dlIno EXCEPT ![dlCur].size = @ + dlBuf]
    /\ dlBuf' = 0
    /\ dlResult' = IF dlPc = "close_ok" THEN "ok" ELSE "error"
    /\ dlPc' = IF dlPc = "close_ok" /\ dlOldTag # "" THEN "gc" ELSE "idle"
    /\ UNCHANGED <<dlFs, dlTag, dlOldTag, dlCur, dlGot, dlBufSize, dlCalls>>
    /\ UNCHANGED nonDlVars

\* The caller, after a successful call: os.unlink(cache_dir/old_tag), an
\* OSError being ignored.
DlUnlinkOld ==
    /\ dlPc = "gc"
    /\ dlFs' = [dlFs EXCEPT ![dlOldTag] = Absent]
    /\ dlPc' = "idle"
    /\ UNCHANGED <<dlIno, dlTag, dlOldTag, dlCur, dlGot, dlBuf, dlBufSize,
                   dlCalls, dlResult>>
    /\ UNCHANGED nonDlVars

(***************************************************************************)
(* SourceCache.find_and_retrieve and its caller, SourcePackage.unpack, run *)
(* by builders that share one cache directory and retrieve the same        *)
(* source file. A body is its sequence of 8192-byte chunks; a chunk goes   *)
(* to the file when it is written.                                         *)
(***************************************************************************)
Builders == {1, 2}

\* The body whose SHA-256 is the declared one, and a body that differs.
GoodBody == <<"g1", "g2">>

CorruptBody == <<"x1", "x2">>

NoFile == [present |-> FALSE, data |-> <<>>]

FileWith(d) == [present |-> TRUE, data |-> d]

\* What the server answers: a body, an URLError when connecting (get turns it
\* into DownloadError), or an error while the body is being read.
Responses == {"good", "corrupt", "connect_fail", "stream_fail"}

BodyOf(resp) == IF resp = "corrupt" THEN CorruptBody ELSE GoodBody

NoFetch == [layer |-> "none", resp |-> "none", off |-> 0]

NoCall == [mode |-> "none", upstream_source |-> "", sha256sum |-> "none"]

NotRead == [err |-> "none", val |-> <<"not read">>]

\* f.write(chunk) at the position of the writer's own file object: a gap left
\* by another writer's truncation reads as zero bytes.
WriteAt(data, off, c) ==
    LET n == IF Len(data) > off + 1 THEN Len(data) ELSE off + 1
    IN [i \in 1..n |->
          IF i = off + 1 THEN c
          ELSE IF i <= Len(data) THEN data[i] ELSE "zero"]

\* hashlib.sha256 of the data equals the declared sum.
HashMatches(data) == data = GoodBody

IdleCache ==
    /\ scFile = NoFile
    /\ scLocal = "absent"
    /\ scDeclared = ""
    /\ scPc = [b \in Builders |-> "idle"]
    /\ scCall = [b \in Builders |-> NoCall]
    /\ scFetch = [b \in Builders |-> NoFetch]
    /\ scPkg = [b \in Builders |-> "None"]
    /\ scOut = [b \in Builders |-> NotRead]
    /\ scTrace = [b \in Builders |-> <<>>]

InitCache ==
    /\ scFile \in {NoFile, FileWith(GoodBody)}
    /\ scLocal \in {"absent", "good", "bad"}
    /\ scDeclared \in {"", "sha"}
    /\ scPc = [b \in Builders |-> "idle"]
    /\ scCall = [b \in Builders |-> NoCall]
    /\ scFetch = [b \in Builders |-> NoFetch]
    /\ scPkg = [b \in Builders |-> "None"]
    /\ scOut = [b \in Builders |-> NotRead]
    /\ scTrace = [b \in Builders |-> <<>>]

\* SourcePackage._locate_archive_file: a local candidate whose sum matches is
\* the archive file; otherwise find_and_retrieve(repo, name, version, source,
\* sha256sum), whose fifth parameter is upstream_source.
LocateArchiveFile(b) ==
    /\ scPc[b] = "idle"
    /\ IF scLocal = "good" /\ scDeclared = "sha"
       THEN /\ scPkg' = [scPkg EXCEPT ![b] = "local"]
            /\ scPc' = [scPc EXCEPT ![b] = "unpack"]
            /\ scCall' = scCall
       ELSE /\ scCall' = [scCall EXCEPT ![b] =
                    [mode |-> "locate", upstream_source |-> scDeclared,
                     sha256sum |-> "none"]]
            /\ scPc' = [scPc EXCEPT ![b] = "cache"]
            /\ scPkg' = scPkg
    /\ UNCHANGED <<scFile, scLocal, scDeclared, scFetch, scOut, scTrace>>
    /\ UNCHANGED nonScVars

\* find_and_retrieve called with every argument in its place.
FindAndRetrieve(b) ==
    /\ scPc[b] = "idle"
    /\ \E up \in {"", "url"}, sum \in {"none", "sha"} :
        scCall' = [scCall EXCEPT ![b] =
            [mode |-> "direct", upstream_source |-> up, sha256sum |-> sum]]
    /\ scPc' = [scPc EXCEPT ![b] = "cache"]
    /\ UNCHANGED <<scFile, scLocal, scDeclared, scFetch, scPkg, scOut,
                   scTrace>>
    /\ UNCHANGED nonScVars

\* fetch_from_cache, and find_and_retrieve up to the call of fetch_from_repo
\* (force_local is False).
FetchFromCache(b) ==
    /\ scPc[b] = "cache"
    /\ LET hit == /\ scFile.present
                  /\ \/ scCall[b].sha256sum = "none"
                     \/ HashMatches(scFile.data)
       IN /\ scPkg' = [scPkg EXCEPT ![b] = IF hit THEN "path" ELSE "None"]
          /\ scPc' = [scPc EXCEPT ![b] = IF hit THEN "ret" ELSE "repo_open"]
    /\ scTrace' = [scTrace EXCEPT ![b] = Append(@, "cache")]
    /\ UNCHANGED <<scFile, scLocal, scDeclared, scCall, scFetch, scOut>>
    /\ UNCHANGED nonScVars

\* fetch_from_repo: open(target_url, "wb+") creates or truncates the file at
\* the cache path; then the request goes to the mirror.
FetchFromRepo(b) ==
    /\ scPc[b] = "repo_open"
    /\ scFile' = FileWith(<<>>)
    /\ \E resp \in Responses :
        scFetch' = [scFetch EXCEPT ![b] =
            [layer |-> "repo", resp |-> resp, off |-> 0]]
    /\ scPc' = [scPc EXCEPT ![b] = "fetch"]
    /\ scTrace' = [scTrace EXCEPT ![b] = Append(@, "repo")]
    /\ UNCHANGED <<scLocal, scDeclared, scCall, scPkg, scOut>>
    /\ UNCHANGED nonScVars

\* fetch_from_upstream: the same, the request going to upstream_source. What
\* _locate_archive_file passed there is no URL: urlopen raises ValueError.
FetchFromUpstream(b) ==
    /\ scPc[b] = "up_open"
    /\ scFile' = FileWith(<<>>)
    /\ \E resp \in Responses :
        scFetch' = [scFetch EXCEPT ![b] =
            [layer |-> "upstream",
             resp |-> IF scCall[b].upstream_source = "url" THEN resp
                      ELSE "bad_url",
             off |-> 0]]
    /\ scPc' = [scPc EXCEPT ![b] = "fetch"]
    /\ scTrace' = [scTrace EXCEPT ![b] = Append(@, "upstream")]
    /\ UNCHANGED <<scLocal, scDeclared, scCall, scPkg, scOut>>
    /\ UNCHANGED nonScVars

\* for chunk in downloader.get(...): f.write(chunk)
FetchWrite(b) ==
    /\ scPc[b] = "fetch"
    /\ scFetch[b].resp \in {"good", "corrupt", "stream_fail"}
    /\ LET body == BodyOf(scFetch[b].resp)
           off == scFetch[b].off
       IN /\ off < Len(body)
          /\ scFetch[b].resp = "stream_fail" => off + 1 < Len(body)
          /\ scFile' = FileWith(WriteAt(scFile.data, off, body[off + 1]))
          /\ scFetch' = [scFetch EXCEPT ![b].off = off + 1]
    /\ UNCHANGED <<scLocal, scDeclared, scPc, scCall, scPkg, scOut, scTrace>>
    /\ UNCHANGED nonScVars

\* The body has been read to its end: the file is closed, and the digest of
\* the chunks received is compared with sha256sum when one was passed.
FetchCompare(b) ==
    /\ scPc[b] = "fetch"
    /\ scFetch[b].resp \in {"good", "corrupt"}
    /\ scFetch[b].off = Len(BodyOf(scFetch[b].resp))
    /\ IF /\ scCall[b].sha256sum # "none"
          /\ ~HashMatches(BodyOf(scFetch[b].resp))
       THEN /\ scOut' = [scOut EXCEPT ![b] = Raise("BoltError")]
            /\ scPc' = [scPc EXCEPT ![b] = "raised"]
            /\ scPkg' = scPkg
       ELSE /\ scPkg' = [scPkg EXCEPT ![b] = "path"]
            /\ scPc' = [scPc EXCEPT ![b] = "ret"]
            /\ scOut' = scOut
    /\ UNCHANGED <<scFile, scLocal, scDeclared, scCall, scFetch, scTrace>>
    /\ UNCHANGED nonScVars

\* get raises DownloadError; find_and_retrieve logs it and goes on to the
\* upstream source when one is known.
FetchDownloadError(b) ==
    /\ scPc[b] = "fetch"
    /\ scFetch[b].resp = "connect_fail"
    /\ scPc' = [scPc EXCEPT ![b] =
          IF scFetch[b].layer = "repo" /\ scCall[b].upstream_source # ""
          THEN "up_open" ELSE "ret"]
    /\ UNCHANGED <<scFile, scLocal, scDeclared, scCall, scFetch, scPkg, scOut,
                   scTrace>>
    /\ UNCHANGED nonScVars

\* An exception that is no DownloadError leaves find_and_retrieve: an error
\* of response.read, or the ValueError of urlopen.
FetchRaise(b) ==
    /\ scPc[b] = "fetch"
    /\ \/ scFetch[b].resp = "stream_fail" /\ scFetch[b].off > 0
       \/ scFetch[b].resp = "bad_url"
    /\ scOut' = [scOut EXCEPT ![b] =
          IF scFetch[b].resp = "bad_url" THEN Raise("ValueError")
          ELSE Raise("OSError")]
    /\ scPc' = [scPc EXCEPT ![b] = "raised"]
    /\ UNCHANGED <<scFile, scLocal, scDeclared, scCall, scFetch, scPkg,
                   scTrace>>
    /\ UNCHANGED nonScVars

\* return pkg
ReturnPkg(b) ==
    /\ scPc[b] = "ret"
    /\ scPc' = [scPc EXCEPT ![b] =
          IF scCall[b].mode = "locate" THEN "unpack" ELSE "done"]
    /\ UNCHANGED <<scFile, scLocal, scDeclared, scCall, scFetch, scPkg, scOut,
                   scTrace>>
    /\ UNCHANGED nonScVars

\* SourcePackage.unpack: PackagingError without an archive file, else the
\* archive file is read and unpacked.
Unpack(b) ==
    /\ scPc[b] = "unpack"
    /\ IF scPkg[b] = "local"
       THEN /\ scOut' = [scOut EXCEPT ![b] = Ret(GoodBody)]
            /\ scPc' = [scPc EXCEPT ![b] = "done"]
       ELSE IF scPkg[b] = "path" /\ scFile.present
       THEN /\ scOut' = [scOut EXCEPT ![b] = Ret(scFile.data)]
            /\ scPc' = [scPc EXCEPT ![b] = "done"]
       ELSE /\ scOut' = [scOut EXCEPT ![b] = Raise("PackagingError")]
            /\ scPc' = [scPc EXCEPT ![b] = "raised"]
    /\ UNCHANGED <<scFile, scLocal, scDeclared, scCall, scFetch, scPkg,
                   scTrace>>
    /\ UNCHANGED nonScVars

(***************************************************************************)
(* The filter parser applied to an expression x, an expression y and the   *)
(* texts "!x", "x and y" and "(x)" spelled from them.                      *)
(***************************************************************************)
MaxLawLexemes == 3

LawLexemes ==
    {<<"a", " ">>, <<"b", " ">>, <<"a", "n", "d", " ">>, <<"o", "r", " ">>,
     <<"!">>, <<"(">>, <<")">>}

LawLeft == {Flatten(ls) : ls \in SeqsUpTo(LawLexemes, MaxLawLexemes)}

LawRight ==
    {Flatten(ls) : ls \in
        {<<>>, <<W_a>>, <<W_b>>, <<<<"!">>, W_a>>, <<<<"!">>, W_b>>,
         <<W_a, W_or, W_b>>, <<W_b, W_or, W_a>>, <<W_a, W_and, W_b>>,
         <<<<"(">>, W_a, W_or, W_b, <<")">>>>, <<<<"(">>, <<")">>>>,
         <<W_a, W_b>>, <<W_and>>}}

NotText(x) == <<"!">> \o x

AndText(x, y) == x \o <<" ", "a", "n", "d", " ">> \o y

ParenText(x) == <<"(">> \o x \o <<")">>

NoLaws ==
    [x |-> NotParsed, y |-> NotParsed, not |-> NotParsed, and |-> NotParsed,
     paren |-> NotParsed]

IdleLaws ==
    /\ lwX = <<>>
    /\ lwY = <<>>
    /\ lwTerms = {}
    /\ lwDone = FALSE
    /\ lwRes = NoLaws

InitLaws ==
    /\ lwX \in LawLeft
    /\ lwY \in LawRight
    /\ lwTerms \in TermSets
    /\ lwDone = FALSE
    /\ lwRes = NoLaws

\* One parser FilterParser(lwTerms), its parse applied to the five texts.
ParseLaws ==
    /\ ~lwDone
    /\ lwDone' = TRUE
    /\ lwRes' = [x |-> parse(lwTerms, lwX),
                 y |-> parse(lwTerms, lwY),
                 not |-> parse(lwTerms, NotText(lwX)),
                 and |-> parse(lwTerms, AndText(lwX, lwY)),
                 paren |-> parse(lwTerms, ParenText(lwX))]
    /\ UNCHANGED <<lwX, lwY, lwTerms>>
    /\ UNCHANGED nonLawsVars

(***************************************************************************)
(* Specfile.preprocess over a document: element 1 is the root <control>,   *)
(* every other element has a parent of smaller number, a <source> element  *)
(* is a child of the root. The 'if' attribute is absent ("none") or an     *)
(* expression text.                                                        *)
(***************************************************************************)
MaxNodes == 3

Elements == 1..MaxNodes

\* The 'if' texts of the documents: true, false, empty, negated, malformed.
IfTexts == {<<"a">>, <<"b">>, <<>>, <<"!", "a">>, <<"(">>}

NoAttr == <<"none">>

PreprocessTerms == {<<"a">>}

\* The documents: for each element its parent (0 for the root), tag and if.
Documents ==
    {d \in [Elements -> [parent : 0..MaxNodes, tag : {"control", "source",
                                                      "package"},
                         if : IfTexts \cup {NoAttr}]] :
        /\ d[1].parent = 0 /\ d[1].tag = "control"
        /\ \A i \in Elements \ {1} :
            /\ d[i].parent \in 1..(i - 1)
            /\ d[i].tag # "control"
            /\ d[i].tag = "source" => d[i].parent = 1}

\* The element is reached from the root through getparent().
RECURSIVE InDocument(_, _)
InDocument(parent, i) ==
    IF i = 1 THEN TRUE
    ELSE IF parent[i] = 0 THEN FALSE
    ELSE InDocument(parent, parent[i])

\* Every tag is removed, <source> too.
IsRemovableAny(tag) == TRUE

\* if element.tag != "source"
IsRemovable(tag) == tag # "source"

IdlePrune ==
    /\ sxDoc = [i \in {1} |-> [parent |-> 0, tag |-> "control", if |-> NoAttr]]
    /\ sxParent = [i \in {1} |-> 0]
    /\ sxSkip = [i \in {1} |-> NoAttr]
    /\ sxNext = 1
    /\ sxRemove = {}
    /\ sxPc = "idle"

InitPrune ==
    /\ sxDoc \in Documents
    /\ sxParent = [i \in Elements |-> sxDoc[i].parent]
    /\ sxSkip = [i \in Elements |-> NoAttr]
    /\ sxNext = 1
    /\ sxRemove = {}
    /\ sxPc = "iter"

\* One round of "for element in self.xml_doc.getroot().iter()".
PreprocessVisit ==
    /\ sxPc = "iter"
    /\ sxNext <= MaxNodes
    /\ LET expr == sxDoc[sxNext].if
           val == parse(PreprocessTerms, expr)
       IN IF expr = NoAttr
          THEN /\ sxNext' = sxNext + 1
               /\ UNCHANGED <<sxRemove, sxSkip, sxPc>>
          ELSE IF val.err # "none"
          THEN /\ sxPc' = "raised"
               /\ UNCHANGED <<sxRemove, sxSkip, sxNext>>
          ELSE /\ sxNext' = sxNext + 1
               /\ sxPc' = sxPc
               /\ sxRemove' =
                    IF val.val = "False" /\ IsRemovable(sxDoc[sxNext].tag)
                    THEN sxRemove \cup {sxNext} ELSE sxRemove
               /\ sxSkip' =
                    IF val.val = "False" /\ ~IsRemovable(sxDoc[sxNext].tag)
                    THEN [sxSkip EXCEPT ![sxNext] = expr] ELSE sxSkip
    /\ UNCHANGED <<sxDoc, sxParent>>
    /\ UNCHANGED nonPruneVars

\* The iteration is over: on to "for element in nodes_to_remove".
PreprocessIterDone ==
    /\ sxPc = "iter"
    /\ sxNext > MaxNodes
    /\ sxPc' = "remove"
    /\ UNCHANGED <<sxDoc, sxParent, sxSkip, sxNext, sxRemove>>
    /\ UNCHANGED nonPruneVars

\* One round of the removal loop, the set being iterated in any order:
\* parent = element.getparent(); if parent is not None: parent.remove(element)
PreprocessRemove ==
    /\ sxPc = "remove"
    /\ \E e \in sxRemove :
        /\ sxRemove' = sxRemove \ {e}
        /\ sxParent' = [sxParent EXCEPT ![e] = 0]
    /\ UNCHANGED <<sxDoc, sxSkip, sxNext, sxPc>>
    /\ UNCHANGED nonPruneVars

\* return self
PreprocessReturn ==
    /\ sxPc = "remove"
    /\ sxRemove = {}
    /\ sxPc' = "done"
    /\ UNCHANGED <<sxDoc, sxParent, sxSkip, sxNext, sxRemove>>
    /\ UNCHANGED nonPruneVars

(***************************************************************************)
(* The build of one binary package: BinaryPackage.generate_file_list,      *)
(* strip_debug_symbols_and_unarm_rpath, and DebianPackage.do_pack with the *)
(* members it writes through ArchiveFileWriter. The path of a content      *)
(* entry is its position in the (sorted) content list; times are seconds.  *)
(***************************************************************************)
MaxFiles == 2
MaxClock == 2

\* The install step ran before the packaging process started (at second 1).
InstallTime == 0

\* The user the install step ran as: st_uid and st_gid of what it wrote.
InstallUids == {0, 1000}

\* st_nlink of an installed file: no other name, or as many as MaxFiles.
Links == {1, MaxFiles}

\* What libmagic reports: is_elf_binary, is_stripped (True for whatever is
\* not an unstripped ELF object), machine and build_id.
PlainMagic ==
    [elf |-> FALSE, stripped |-> TRUE, machine |-> "none", build_id |-> "none"]

Magics ==
    {PlainMagic,
     [elf |-> TRUE, stripped |-> TRUE, machine |-> "x86", build_id |-> "b1"],
     [elf |-> TRUE, stripped |-> FALSE, machine |-> "x86", build_id |-> "b1"],
     [elf |-> TRUE, stripped |-> FALSE, machine |-> "x86",
      build_id |-> "none"],
     [elf |-> TRUE, stripped |-> FALSE, machine |-> "no machine",
      build_id |-> "none"]}

\* The owner/group attribute of a content entry ("" when not declared).
Owners == {"", "www"}

\* os.lstat of the installed file with inode f.
Lstat(disk, f) ==
    [kind |-> "file", dev |-> 1, ino |-> f, nlink |-> disk[f].nlink,
     uid |-> bpUid, gid |-> bpUid, mtime |-> disk[f].mtime]

\* FileStats.default_dir_stats() at second timestamp.
default_dir_stats(timestamp) ==
    [kind |-> "dir", dev |-> 0, ino |-> 0, nlink |-> 3, uid |-> 0, gid |-> 0,
     mtime |-> timestamp]

\* attr.dbg_info of an entry the strip pass has not handled.
NoDebug == [by |-> "none", id |-> "none", src |-> 0]

\* The companion path: by build id, or by the path of the entry.
DebugPath(build_id, src) ==
    IF build_id # "none"
    THEN [by |-> "build-id", id |-> build_id, src |-> 0]
    ELSE [by |-> "name", id |-> "none", src |-> src]

\* The number of content entries that name the inode f.
Refs(contents, f) ==
    Cardinality({i \in 1..Len(contents) :
                    contents[i].deftype = "file" /\ contents[i].stats.ino = f})

\* strip_debug_symbols_and_unarm_rpath from entry i on: the entries that are
\* unstripped ELF files of a known machine and no hardlink of one handled
\* before get dbg_info, are stripped on disk by objcopy, and are restat'ed
\* (restat renews the lstat result, the magic stays as detected).
RECURSIVE StripFrom(_, _, _, _, _)
StripFrom(contents, i, hardlinks, disk, now) ==
    IF i > Len(contents) THEN [contents |-> contents, disk |-> disk]
    ELSE
        LET attr == contents[i]
            key  == <<attr.stats.dev, attr.stats.ino>>
            f    == attr.stats.ino
        IN  IF \/ ~(attr.stats.kind = "file" /\ attr.magic.elf)
               \/ attr.magic.stripped
               \/ attr.magic.machine = "no machine"
               \/ key \in hardlinks
            THEN StripFrom(contents, i + 1, hardlinks, disk, now)
            ELSE
                LET disk2 == [disk EXCEPT ![f].magic.stripped = TRUE,
                                          ![f].mtime = now]
                    attr2 == [attr EXCEPT
                                !.dbg_info = DebugPath(attr.magic.build_id, i),
                                !.stats = Lstat(disk2, f)]
                IN  StripFrom([contents EXCEPT ![i] = attr2], i + 1,
                              hardlinks \cup {key}, disk2, now)

\* No hardlink handling at all.
HardlinkOfNone(hardlinks, st) == 0

\* ArchiveFileWriter.write_entry, "automatic hardlink handling": the path
\* recorded for (dev, inode) of an entry with nlink > 1 and an inode, or 0.
HardlinkOf(hardlinks, st) ==
    IF /\ st.nlink > 1 /\ st.ino # 0
       /\ \E h \in hardlinks : h.dev = st.dev /\ h.ino = st.ino
    THEN (CHOOSE h \in hardlinks : h.dev = st.dev /\ h.ino = st.ino).path
    ELSE 0

\* What archive_entry holds before write_entry: a directory synthesized at
\* the timestamp for a declared directory missing on disk (the fields that
\* clear() zeroed stay zero), _copy_raw_stat(attr.stats) otherwise.
RawStat(attr, timestamp) ==
    IF attr.deftype # "file" /\ ~attr.onDisk
    THEN [kind |-> "dir", dev |-> 0, ino |-> 0, nlink |-> 0, uid |-> 0,
          gid |-> 0, mtime |-> timestamp]
    ELSE attr.stats

\* write_data_part from entry i on: the members of data.tar.gz. A member
\* with a hardlink set is written by the ustar writer of libarchive as a
\* link entry of size 0, whose data is dropped.
RECURSIVE DataMembers(_, _, _, _)
DataMembers(contents, i, hardlinks, timestamp) ==
    IF i > Len(contents) THEN <<>>
    ELSE
        LET attr == contents[i]
            st   == RawStat(attr, timestamp)
            link == HardlinkOf(hardlinks, st)
            seen == IF st.nlink > 1 /\ st.ino # 0 /\ link = 0
                    THEN hardlinks \cup
                            {[dev |-> st.dev, ino |-> st.ino, path |-> i]}
                    ELSE hardlinks
            member ==
                [path |-> i,
                 type |-> IF link # 0 THEN "hardlink" ELSE st.kind,
                 linkpath |-> link,
                 data |-> st.kind = "file" /\ link = 0,
                 uid |-> st.uid, gid |-> st.gid,
                 uname |-> IF attr.owner # "" THEN attr.owner ELSE "root",
                 gname |-> IF attr.owner # "" THEN attr.owner ELSE "root",
                 mtime |-> st.mtime]
        IN  <<member>> \o DataMembers(contents, i + 1, seen, timestamp)

\* write_control_part: the members of control.tar.gz.
ControlMembers(timestamp) ==
    <<[path |-> "control", uid |-> 0, gid |-> 0, uname |-> "root",
       gname |-> "root", mtime |-> timestamp]>>

\* assemble_parts, the ar members: copy_stat of the file in the temporary
\* directory, then uid, gid, uname and gname are set.
ArMembers(stamp) ==
    [i \in 1..Len(ArEntryNames) |->
        [path |-> ArEntryNames[i], uid |-> 0, gid |-> 0, uname |-> "root",
         gname |-> "root",
         mtime |-> IF ArEntryNames[i] = "data.tar.gz" THEN stamp.data
                   ELSE IF ArEntryNames[i] = "control.tar.gz"
                        THEN stamp.control
                   ELSE stamp.ar]]

\* pack_package(debug_pkg=True): the companion paths of the -dbg package.
DebugPaths(contents) ==
    {contents[i].dbg_info : i \in
        {j \in 1..Len(contents) :
            /\ contents[j].stats.kind = "file" /\ contents[j].magic.elf
            /\ contents[j].dbg_info # NoDebug}}

NoStamp == [data |-> 0, control |-> 0, ar |-> 0]

\* The seconds the clock may show at the next step.
Times == bpClock..MaxClock

IdleBuild ==
    /\ bpDisk = <<>>
    /\ bpUid = 0
    /\ bpMakeDebug = FALSE
    /\ bpContents = <<>>
    /\ bpClock = 1
    /\ bpPc = "expand"
    /\ bpStamp = NoStamp
    /\ bpData = <<>>
    /\ bpControl = <<>>
    /\ bpAr = <<>>
    /\ bpDbg = {}

InitBuild ==
    /\ bpDisk = <<>>
    /\ bpUid \in InstallUids
    /\ bpMakeDebug \in BOOLEAN
    /\ bpContents = <<>>
    /\ bpClock = 1
    /\ bpPc = "expand"
    /\ bpStamp = NoStamp
    /\ bpData = <<>>
    /\ bpControl = <<>>
    /\ bpAr = <<>>
    /\ bpDbg = {}

\* generate_file_list, an entry of deftype "dir".
AddDir ==
    /\ bpPc = "expand"
    /\ Len(bpContents) < MaxFiles
    /\ \E onDisk \in BOOLEAN, owner \in Owners :
        bpContents' = Append(bpContents,
            [deftype |-> "dir", onDisk |-> onDisk,
             stats |-> default_dir_stats(bpClock), magic |-> PlainMagic,
             owner |-> owner, dbg_info |-> NoDebug])
    /\ UNCHANGED <<bpDisk, bpUid, bpMakeDebug, bpClock, bpPc, bpStamp,
                   bpData, bpControl, bpAr, bpDbg>>
    /\ UNCHANGED nonBuildVars

\* generate_file_list, an entry for a file no earlier entry names.
AddFile ==
    /\ bpPc = "expand"
    /\ Len(bpContents) < MaxFiles
    /\ \E m \in Magics, n \in Links, owner \in Owners :
        LET disk == Append(bpDisk,
                        [nlink |-> n, magic |-> m, mtime |-> InstallTime])
        IN  /\ bpDisk' = disk
            /\ bpContents' = Append(bpContents,
                [deftype |-> "file", onDisk |-> TRUE,
                 stats |-> Lstat(disk, Len(disk)), magic |-> m,
                 owner |-> owner, dbg_info |-> NoDebug])
    /\ UNCHANGED <<bpUid, bpMakeDebug, bpClock, bpPc, bpStamp, bpData,
                   bpControl, bpAr, bpDbg>>
    /\ UNCHANGED nonBuildVars

\* generate_file_list, an entry for another name of a file listed before.
AddLink ==
    /\ bpPc = "expand"
    /\ Len(bpContents) < MaxFiles
    /\ \E f \in 1..Len(bpDisk), owner \in Owners :
        /\ Refs(bpContents, f) < bpDisk[f].nlink
        /\ bpContents' = Append(bpContents,
            [deftype |-> "file", onDisk |-> TRUE, stats |-> Lstat(bpDisk, f),
             magic |-> bpDisk[f].magic, owner |-> owner,
             dbg_info |-> NoDebug])
    /\ UNCHANGED <<bpDisk, bpUid, bpMakeDebug, bpClock, bpPc, bpStamp,
                   bpData, bpControl, bpAr, bpDbg>>
    /\ UNCHANGED nonBuildVars

\* PackageControl.package: strip_debug_symbols_and_unarm_rpath.
Strip ==
    /\ bpPc = "expand"
    /\ \E now \in Times :
        LET r == StripFrom(bpContents, 1, {}, bpDisk, now)
        IN  /\ bpContents' = r.contents
            /\ bpDisk' = r.disk
            /\ bpClock' = now
    /\ bpPc' = "data"
    /\ UNCHANGED <<bpUid, bpMakeDebug, bpStamp, bpData, bpControl, bpAr,
                   bpDbg>>
    /\ UNCHANGED nonBuildVars

\* assemble_parts of the primary package: write_data_part.
WriteDataPart ==
    /\ bpPc = "data"
    /\ \E timestamp \in Times :
        /\ bpData' = DataMembers(bpContents, 1, {}, timestamp)
        /\ bpStamp' = [bpStamp EXCEPT !.data = timestamp]
        /\ bpClock' = timestamp
    /\ bpPc' = "control"
    /\ UNCHANGED <<bpDisk, bpUid, bpMakeDebug, bpContents, bpControl, bpAr,
                   bpDbg>>
    /\ UNCHANGED nonBuildVars

\* assemble_parts of the primary package: write_control_part.
WriteControlPart ==
    /\ bpPc = "control"
    /\ \E timestamp \in Times :
        /\ bpControl' = ControlMembers(timestamp)
        /\ bpStamp' = [bpStamp EXCEPT !.control = timestamp]
        /\ bpClock' = timestamp
    /\ bpPc' = "ar"
    /\ UNCHANGED <<bpDisk, bpUid, bpMakeDebug, bpContents, bpData, bpAr,
                   bpDbg>>
    /\ UNCHANGED nonBuildVars

\* assemble_parts of the primary package: debian-binary and the ar file.
WriteArchive ==
    /\ bpPc = "ar"
    /\ \E now \in Times :
        /\ bpStamp' = [bpStamp EXCEPT !.ar = now]
        /\ bpAr' = ArMembers([bpStamp EXCEPT !.ar = now])
        /\ bpClock' = now
    /\ bpPc' = "dbg"
    /\ UNCHANGED <<bpDisk, bpUid, bpMakeDebug, bpContents, bpData, bpControl,
                   bpDbg>>
    /\ UNCHANGED nonBuildVars

\* do_pack: "if self.make_debug_pkgs: self.pack_package(debug_pkg=True)".
PackDebug ==
    /\ bpPc = "dbg"
    /\ bpDbg' = IF bpMakeDebug THEN DebugPaths(bpContents) ELSE {}
    /\ bpPc' = "done"
    /\ UNCHANGED <<bpDisk, bpUid, bpMakeDebug, bpContents, bpClock, bpStamp,
                   bpData, bpControl, bpAr>>
    /\ UNCHANGED nonBuildVars

(***************************************************************************)
(* The control file of a package: DebianPackage.meta_data, the             *)
(* Installed-Size field set by assemble_parts, and                         *)
(* DebianPackageMetaData.__str__. A field is a key with a tag for its      *)
(* value.                                                                  *)
(***************************************************************************)
\* Provides ahead of Conflicts.
RELEVANT_KEYS_Swapped ==
    <<"Package", "Source", "Version", "Installed-Size", "Maintainer",
      "Architecture", "Depends", "Build-Depends", "Build-Conflicts",
      "Pre-Depends", "Recommends", "Suggests", "Breaks", "Provides",
      "Conflicts", "Replaces", "Enhances", "Description", "Section",
      "Filename", "Size", "SHA256", "Checksums-Sha256">>

\* DebianPackageMetaData.RELEVANT_KEYS
RELEVANT_KEYS ==
    <<"Package", "Source", "Version", "Installed-Size", "Maintainer",
      "Architecture", "Depends", "Build-Depends", "Build-Conflicts",
      "Pre-Depends", "Recommends", "Suggests", "Breaks", "Conflicts",
      "Provides", "Replaces", "Enhances", "Description", "Section",
      "Filename", "Size", "SHA256", "Checksums-Sha256">>

\* dep_type_2_str
dep_type_2_str ==
    [requires |-> "Depends", provides |-> "Provides",
     conflicts |-> "Conflicts", replaces |-> "Replaces"]

DepTypes == {"requires", "provides", "conflicts", "replaces"}

\* DebianPackage.meta_data(debug_pkg) of a package whose non-empty relations
\* are rels, whose section attribute is given or not, and whose description
\* has a full part or not.
meta_data(debug_pkg, rels, section, full) ==
    LET base == {"Package", "Version", "Source", "Architecture", "Maintainer",
                 "Section", "Description"}
        keys == IF debug_pkg THEN base \cup {"Depends"}
                ELSE base \cup {dep_type_2_str[t] : t \in rels}
    IN  [k \in keys |->
            IF k = "Package" THEN IF debug_pkg THEN "name-dbg" ELSE "name"
            ELSE IF k = "Section"
                 THEN IF debug_pkg THEN "debug"
                      ELSE IF section THEN "given" ELSE "unknown"
            ELSE IF k = "Description"
                 THEN IF debug_pkg THEN "debug symbols"
                      ELSE IF full THEN "summary+full" ELSE "summary"
            ELSE IF k = "Depends" /\ debug_pkg THEN "name (= version)"
            ELSE "value"]

\* meta_data["Installed-Size"] = "{}".format(installed_size)
SetItem(fields, key, value) ==
    [k \in DOMAIN fields \cup {key} |->
        IF k = key THEN value ELSE fields[k]]

\* DebianPackageMetaData.__str__ from key number i on: one line, key and
\* value, for each of RELEVANT_KEYS that is among the fields.
RECURSIVE StrFrom(_, _)
StrFrom(fields, i) ==
    IF i > Len(RELEVANT_KEYS) THEN <<>>
    ELSE IF RELEVANT_KEYS[i] \in DOMAIN fields
         THEN <<[key |-> RELEVANT_KEYS[i], value |-> fields[RELEVANT_KEYS[i]]]>>
                  \o StrFrom(fields, i + 1)
         ELSE StrFrom(fields, i + 1)

NoFields == [k \in {} |-> "value"]

IdleMeta ==
    /\ mdFields = NoFields
    /\ mdPc = "new"
    /\ mdControl = <<>>

InitMeta ==
    /\ mdFields = NoFields
    /\ mdPc = "new"
    /\ mdControl = <<>>

\* pack_package: meta_data = self.meta_data(debug_pkg=debug_pkg)
MetaData ==
    /\ mdPc = "new"
    /\ \E debug_pkg \in BOOLEAN, rels \in SUBSET DepTypes,
          section \in BOOLEAN, full \in BOOLEAN :
        mdFields' = meta_data(debug_pkg, rels, section, full)
    /\ mdPc' = "meta"
    /\ UNCHANGED mdControl
    /\ UNCHANGED nonMetaVars

\* assemble_parts: the Installed-Size field.
SetInstalledSize ==
    /\ mdPc = "meta"
    /\ mdFields' = SetItem(mdFields, "Installed-Size", "size")
    /\ mdPc' = "sized"
    /\ UNCHANGED mdControl
    /\ UNCHANGED nonMetaVars

\* write_control_part: ("control", str(meta_data), 0o644)
WriteControl ==
    /\ mdPc = "sized"
    /\ mdControl' = StrFrom(mdFields, 1)
    /\ mdPc' = "written"
    /\ UNCHANGED mdFields
    /\ UNCHANGED nonMetaVars

(***************************************************************************)
(* The repository index: RepoIndexer (repoindexer.py) over a pool of .bolt *)
(* files, and the text form of DebianPackageMetaData. A text is a sequence *)
(* of characters; a field key, the extension ".bolt" and the architecture  *)
(* count as one character each. A field value is the text Python's format  *)
(* gives it, with a mark for the values that are integers.                 *)
(***************************************************************************)
\* The white space of str.strip() and of \s that the model's texts hold.
Blank == {" ", "\n"}

RECURSIVE lstrip(_)
lstrip(s) == IF s # <<>> /\ s[1] \in Blank THEN lstrip(Tail(s)) ELSE s

RECURSIVE rstrip(_)
rstrip(s) ==
    IF s # <<>> /\ s[Len(s)] \in Blank THEN rstrip(Take(s, Len(s) - 1))
    ELSE s

\* str.strip()
strip(s) == rstrip(lstrip(s))

\* str.find(c) counted from 1; 0 when c does not occur.
Find(s, c) ==
    IF \E i \in 1..Len(s) : s[i] = c
    THEN CHOOSE i \in 1..Len(s) :
            s[i] = c /\ \A j \in 1..(i - 1) : s[j] # c
    ELSE 0

\* str.splitlines()
RECURSIVE splitlines(_)
splitlines(s) ==
    IF s = <<>> THEN <<>>
    ELSE IF Find(s, "\n") = 0 THEN <<s>>
    ELSE <<Take(s, Find(s, "\n") - 1)>>
             \o splitlines(Drop(s, Find(s, "\n")))

\* sep.join(parts)
RECURSIVE join(_, _)
join(sep, parts) ==
    IF parts = <<>> THEN <<>>
    ELSE IF Len(parts) = 1 THEN parts[1]
    ELSE parts[1] \o sep \o join(sep, Tail(parts))

RECURSIVE SkipNewlines(_)
SkipNewlines(s) ==
    IF s # <<>> /\ s[1] = "\n" THEN SkipNewlines(Tail(s)) ELSE s

\* re.split(r"\n\n+", text)
RECURSIVE SplitBlocks(_)
SplitBlocks(s) ==
    LET gaps == {i \in 1..(Len(s) - 1) : s[i] = "\n" /\ s[i + 1] = "\n"}
        i == CHOOSE g \in gaps : \A h \in gaps : g <= h
    IN  IF gaps = {} THEN <<s>>
        ELSE <<Take(s, i - 1)>> \o SplitBlocks(SkipNewlines(Drop(s, i - 1)))

\* "{}".format(n) of a non-negative integer.
RECURSIVE Decimal(_)
Decimal(n) ==
    LET d == CHOOSE c \in Digits : DigitVal[c] = n % 10
    IN  IF n < 10 THEN <<d>> ELSE Append(Decimal(n \div 10), d)

\* A value of meta_data._fields: a str, or an int with its decimal text.
StrValue(t) == [int |-> FALSE, text |-> t]

IntValue(n) == [int |-> TRUE, text |-> Decimal(n)]

NoEntry == [k \in {} |-> StrValue(<<>>)]

\* _parse_meta_data_minimal: Package and Version, the first of each, from
\* the lines that hold a colon. (No text of the model has a Source field.)
RECURSIVE ParseMinimal(_, _, _)
ParseMinimal(lines, i, fields) ==
    IF i > Len(lines) THEN fields
    ELSE LET line == lines[i]
             n == Find(line, ":")
             key == Take(line, n - 1)
         IN  IF /\ n > 0
                /\ key \in {<<"Package">>, <<"Version">>}
                /\ key \notin DOMAIN fields
             THEN ParseMinimal(lines, i + 1,
                      SetItem(fields, key, StrValue(strip(Drop(line, n)))))
             ELSE ParseMinimal(lines, i + 1, fields)

\* The loop of _parse_meta_data_full from line i on: lists has the list of
\* value lines of each key met so far, key is the key of the last field
\* line (<<>> for None).
RECURSIVE ParseFullLines(_, _, _, _)
ParseFullLines(lines, i, lists, key) ==
    IF i > Len(lines) THEN Ret(lists)
    ELSE LET line == lines[i]
             n == Find(line, ":")
             k == strip(Take(line, n - 1))
             v == strip(Drop(line, n))
             old == IF k \in DOMAIN lists THEN lists[k] ELSE <<>>
         IN  IF line # <<>> /\ line[1] = "#"
             THEN ParseFullLines(lines, i + 1, lists, key)
             ELSE IF line # <<>> /\ line[1] \in Blank
             THEN IF key = <<>> THEN Raise("BoltError")
                  ELSE ParseFullLines(lines, i + 1,
                           SetItem(lists, key,
                                   Append(lists[key], strip(line))), key)
             ELSE IF n = 0 THEN Raise("BoltError")
             ELSE ParseFullLines(lines, i + 1,
                      SetItem(lists, k,
                              IF v = <<>> THEN old ELSE Append(old, v)), k)

\* DebianPackageMetaData(string) after _parse_meta_data_full: the fields of
\* the minimal parse updated with those of the full one, the value lines
\* of a key joined with "\n    ".
ParseFull(string) ==
    LET min == ParseMinimal(splitlines(string), 1, NoEntry)
        full == ParseFullLines(splitlines(strip(string)), 1,
                               [k \in {} |-> <<>>], <<>>)
    IN  IF full.err # "none" THEN full
        ELSE Ret([k \in DOMAIN min \cup DOMAIN full.val |->
                    IF k \in DOMAIN full.val
                    THEN StrValue(join(<<"\n", " ", " ", " ", " ">>,
                                       full.val[k]))
                    ELSE min[k]])

\* DebianPackageMetaData.__str__ from key number i on, as text.
RECURSIVE StrText(_, _)
StrText(fields, i) ==
    IF i > Len(RELEVANT_KEYS) THEN <<>>
    ELSE IF <<RELEVANT_KEYS[i]>> \in DOMAIN fields
         THEN <<RELEVANT_KEYS[i], ":", " ">>
                  \o fields[<<RELEVANT_KEYS[i]>>].text \o <<"\n">>
                  \o StrText(fields, i + 1)
         ELSE StrText(fields, i + 1)

\* A .bolt file of the pool: its directory below repo_dir, and the name and
\* version of its control file, which its file name carries as well.
\* The directory " q" has a name that begins with a space; a file moved from
\* "p" to "o" is the second one in the place of the first.
PoolFiles ==
    {[dir |-> <<"p">>, name |-> "a", version |-> "1"],
     [dir |-> <<"o">>, name |-> "a", version |-> "1"],
     [dir |-> <<"p">>, name |-> "b", version |-> "2"],
     [dir |-> <<" ", "q">>, name |-> "a", version |-> "2"]}

\* The path of a file relative to repo_dir.
PathOf(f) == f.dir \o <<"/", f.name, "_", f.version, "_", "all", ".bolt">>

\* The control member of a file: the description has a second line.
ControlOf(f) ==
    <<"Package", ":", " ", f.name, "\n", "Version", ":", " ", f.version, "\n",
      "Description", ":", " ", "s", "\n", " ", "t", "\n">>

\* os.path.getsize, hashlib.sha256 of a file
SizeOf(f) == IF f.name = "a" THEN 7 ELSE 12

Sha256Of(f) == <<"h", f.name, f.version>>

RECURSIVE SelectLines(_)
SelectLines(lines) ==
    IF lines = <<>> THEN <<>>
    ELSE IF lines[1] # <<>> /\ lines[1][1] \in Blank
         THEN SelectLines(Tail(lines))
         ELSE <<lines[1]>> \o SelectLines(Tail(lines))

\* _extract_control_data: re.sub(r"^\s+.*?$\n?", "", text).strip() drops the
\* lines that begin with white space.
_extract_control_data(f) ==
    strip(join(<<"\n">>, SelectLines(splitlines(ControlOf(f)))))

\* extract_control_data: the control fields, then Filename, SHA256, Size.
extract_control_data(f) ==
    SetItem(SetItem(SetItem(ParseFull(_extract_control_data(f)).val,
        <<"Filename">>, StrValue(PathOf(f))),
        <<"SHA256">>, StrValue(Sha256Of(f))),
        <<"Size">>, IntValue(SizeOf(f)))

\* An index: the entry of each (name, version).
EmptyIndex == [k \in {} |-> NoEntry]

\* load_package_index from block i on: a block without Package or Version
\* is passed over, a later block of a key replaces an earlier one.
RECURSIVE LoadBlocks(_, _, _)
LoadBlocks(blocks, i, index) ==
    IF i > Len(blocks) THEN index
    ELSE LET min == ParseMinimal(splitlines(blocks[i]), 1, NoEntry)
             full == ParseFull(blocks[i])
         IN  IF {<<"Package">>, <<"Version">>} \subseteq DOMAIN min
             THEN LoadBlocks(blocks, i + 1,
                      SetItem(index,
                              <<min[<<"Package">>].text,
                                min[<<"Version">>].text>>,
                              IF full.err = "none" THEN full.val ELSE min))
             ELSE LoadBlocks(blocks, i + 1, index)

load_package_index(body) == LoadBlocks(SplitBlocks(body), 1, EmptyIndex)

\* The key the indexer files a .bolt file under.
KeyOf(f) == <<(<<f.name>>), (<<f.version>>)>>

\* The sets os.walk can meet first: one file of each name and version.
FirstMet(pool) ==
    {p \in SUBSET pool :
        /\ \A f \in pool : \E g \in p : KeyOf(g) = KeyOf(f)
        /\ \A f, g \in p : KeyOf(f) = KeyOf(g) => f = g}

\* scan and the loop of update_package_index: a file whose name and version
\* are in the index is passed over, which leaves the files met first.
ScanInto(index, first) ==
    [k \in DOMAIN index \cup {KeyOf(f) : f \in first} |->
        IF k \in DOMAIN index THEN index[k]
        ELSE extract_control_data(CHOOSE f \in first : KeyOf(f) = k)]

\* prune_package_index: os.path.exists(repo_dir/Filename)
prune_package_index(index, pool) ==
    [k \in {x \in DOMAIN index :
               \E f \in pool : PathOf(f) = index[x][<<"Filename">>].text}
        |-> index[k]]

\* The order of Python's str over the names of the model.
RECURSIVE TextLess(_, _)
TextLess(a, b) ==
    IF b = <<>> THEN FALSE
    ELSE IF a = <<>> THEN TRUE
    ELSE IF a[1] # b[1] THEN Ord[a[1]] < Ord[b[1]]
    ELSE TextLess(Tail(a), Tail(b))

\* sorted(index.keys()), and in a name
\* sorted(index[name].keys(), key=cmp_to_key(compare_versions))
KeyBefore(j, k) ==
    \/ TextLess(j[1], k[1])
    \/ j[1] = k[1] /\ compare_versions(j[2], k[2]) = Ret(-1)

RECURSIVE SortedKeys(_)
SortedKeys(keys) ==
    IF keys = {} THEN <<>>
    ELSE LET first == CHOOSE k \in keys : \A j \in keys : ~KeyBefore(j, k)
         IN  <<first>> \o SortedKeys(keys \ {first})

\* store_package_index: "\n".join([str(entry) for entry in meta_data_list])
Emit(index) ==
    LET keys == SortedKeys(DOMAIN index)
    IN  join(<<"\n">>, [n \in 1..Len(keys) |-> StrText(index[keys[n]], 1)])

\* The files store_package_index renames onto.
IndexNames == {"Packages.gz", "Packages.sig", "InPackages.gz"}

NoPackages == [exists |-> FALSE, body |-> <<>>]

NoRun ==
    [ran |-> FALSE, clean |-> FALSE, had |-> {}, emitted |-> FALSE,
     index |-> EmptyIndex, renamed |-> {}]

NotLoaded == [done |-> FALSE, index |-> EmptyIndex]

IdleIndex ==
    /\ ixForceFull = FALSE
    /\ ixSignWith = FALSE
    /\ ixPool = {}
    /\ ixDirty = TRUE
    /\ ixPackages = NoPackages
    /\ ixSigned = {}
    /\ ixRun = NoRun
    /\ ixLoaded = NotLoaded

\* RepoIndexer(repo_dir, force_full, sign_with) over an empty repo_dir.
InitIndex ==
    /\ ixForceFull \in BOOLEAN
    /\ ixSignWith \in BOOLEAN
    /\ ixPool = {}
    /\ ixDirty = TRUE
    /\ ixPackages = NoPackages
    /\ ixSigned = {}
    /\ ixRun = NoRun
    /\ ixLoaded = NotLoaded

\* A .bolt file is copied into the pool. What the last run did and what was
\* read after it are kept until the pool changes.
PoolAdd ==
    /\ \E f \in PoolFiles \ ixPool : ixPool' = ixPool \cup {f}
    /\ ixDirty' = TRUE
    /\ UNCHANGED <<ixForceFull, ixSignWith>>
    /\ ixRun' = [NoRun EXCEPT !.ran = ixRun.ran]
    /\ ixLoaded' = NotLoaded
    /\ UNCHANGED <<ixPackages, ixSigned>>
    /\ UNCHANGED nonIndexVars

\* A .bolt file is deleted from the pool.
PoolRemove ==
    /\ \E f \in ixPool : ixPool' = ixPool \ {f}
    /\ ixDirty' = TRUE
    /\ UNCHANGED <<ixForceFull, ixSignWith>>
    /\ ixRun' = [NoRun EXCEPT !.ran = ixRun.ran]
    /\ ixLoaded' = NotLoaded
    /\ UNCHANGED <<ixPackages, ixSigned>>
    /\ UNCHANGED nonIndexVars

\* Packages.sig or InPackages.gz is deleted.
RemoveSigned ==
    /\ \E n \in ixSigned : ixSigned' = ixSigned \ {n}
    /\ UNCHANGED <<ixForceFull, ixSignWith>>
    /\ UNCHANGED <<ixPool, ixDirty, ixPackages, ixRun, ixLoaded>>
    /\ UNCHANGED nonIndexVars

\* update_package_index up to the call of store_package_index: the index
\* loaded unless force_full, the files met first scanned into it, pruned
\* unless force_full.
update_package_index(packages, pool, first, force_full) ==
    LET loaded == IF ~force_full /\ packages.exists
                  THEN load_package_index(packages.body)
                  ELSE EmptyIndex
    IN  IF force_full THEN ScanInto(loaded, first)
        ELSE prune_package_index(ScanInto(loaded, first), pool)

\* The files store_package_index renames onto: Packages.gz when the text
\* changed, the signed files when it changed or when they are missing.
Renamed(changed, sign_with, signed) ==
    (IF changed THEN {"Packages.gz"} ELSE {})
        \cup (IF sign_with
              THEN {n \in {"Packages.sig", "InPackages.gz"} :
                       changed \/ n \notin signed}
              ELSE {})

\* What a run leaves: the files renamed onto, and the record of the run.
StoreNames(index, body, renamed) ==
    /\ ixPackages' = IF "Packages.gz" \in renamed
                     THEN [exists |-> TRUE, body |-> body]
                     ELSE ixPackages
    /\ ixSigned' = ixSigned \cup (renamed \ {"Packages.gz"})
    /\ ixRun' = [ran |-> TRUE, clean |-> ixRun.ran /\ ~ixDirty,
                 had |-> ixSigned, emitted |-> index # EmptyIndex,
                 index |-> index, renamed |-> renamed]

\* store_package_index of a text: "if not meta_data_list: return"; the
\* digest remembered at load time is modelled by the body it is taken of.
StoreBody(index, body) ==
    StoreNames(index, body,
        IF index = EmptyIndex THEN {}
        ELSE Renamed(~(~ixForceFull /\ ixPackages.exists
                        /\ body = ixPackages.body),
                     ixSignWith, ixSigned))

store_package_index(index) == StoreBody(index, Emit(index))

\* update_package_index, with store_package_index to its return.
UpdatePackageIndex ==
    /\ \E first \in FirstMet(ixPool) :
        store_package_index(
            update_package_index(ixPackages, ixPool, first, ixForceFull))
    /\ ixDirty' = FALSE
    /\ ixLoaded' = NotLoaded
    /\ UNCHANGED <<ixForceFull, ixSignWith, ixPool>>
    /\ UNCHANGED nonIndexVars

\* load_package_index of the Packages.gz an update left.
LoadPackageIndex ==
    /\ ixRun.ran
    /\ ixPackages.exists
    /\ ~ixLoaded.done
    /\ ixLoaded' = [done |-> TRUE,
                    index |-> load_package_index(ixPackages.body)]
    /\ UNCHANGED <<ixForceFull, ixSignWith>>
    /\ UNCHANGED <<ixPool, ixDirty, ixPackages, ixSigned, ixRun>>
    /\ UNCHANGED nonIndexVars

(***************************************************************************)
(* PackageControl.__call__ and the actions it dispatches to, in the two    *)
(* variants of packagecontrol.py (yaybondi and boltlinux). A step is one   *)
(* call made by an action: its name and the number of the binary package   *)
(* it is made on (0 for the source package).                               *)
(***************************************************************************)
MaxPkgs == 2

Variants == {"yaybondi", "boltlinux"}

\* The methods of PackageControl an action can name.
ActionsOf(variant) ==
    {"list_deps", "unpack", "prepare", "build", "install", "package",
     "repackage", "clean", "default"}
        \cup (IF variant = "yaybondi" THEN {"mk_build_deps", "would_build"}
              ELSE {})

\* __call__: "if action not in ..."
Unchecked(variant) ==
    IF variant = "yaybondi"
    THEN {"list_deps", "mk_build_deps", "unpack", "clean"}
    ELSE {"list_deps", "unpack", "clean"}

SrcStep(op) == [op |-> op, pkg |-> 0]

\* for pkg in self.bin_pkgs: pkg.<op>()
RECURSIVE ForEachPkg(_, _, _)
ForEachPkg(op, p, n) ==
    IF p > n THEN <<>>
    ELSE <<[op |-> op, pkg |-> p]>> \o ForEachPkg(op, p + 1, n)

\* for pkg in self.bin_pkgs: pkg.pack(shlib_cache, self.bin_pkgs), where
\* BinaryPackage.pack is shlib_deps and then do_pack.
RECURSIVE PackEach(_, _)
PackEach(p, n) ==
    IF p > n THEN <<>>
    ELSE <<[op |-> "shlib_deps", pkg |-> p], [op |-> "do_pack", pkg |-> p]>>
             \o PackEach(p + 1, n)

\* Every step made on a package before the next package is begun.
RECURSIVE PackageByPackage(_, _)
PackageByPackage(p, n) ==
    IF p > n THEN <<>>
    ELSE <<[op |-> "expand", pkg |-> p], [op |-> "strip", pkg |-> p],
           [op |-> "overlay", pkg |-> p], [op |-> "shlib_deps", pkg |-> p],
           [op |-> "do_pack", pkg |-> p]>> \o PackageByPackage(p + 1, n)

packageEach(n) == PackageByPackage(1, n)

\* PackageControl.package over n binary packages: BinaryPackage.prepare
\* ("expand"), the strip method, overlay_package, pack.
package(n) ==
    ForEachPkg("expand", 1, n) \o ForEachPkg("strip", 1, n)
        \o ForEachPkg("overlay", 1, n) \o PackEach(1, n)

unpack == <<SrcStep("unpack"), SrcStep("patch")>>

\* The calls of getattr(self, action)().
StepsOf(action, n) ==
    CASE action = "list_deps" -> <<SrcStep("build_dependencies")>>
      [] action = "mk_build_deps" -> <<[op |-> "do_pack", pkg |-> 1]>>
      [] action = "unpack" -> unpack
      [] action = "clean" -> <<SrcStep("run_clean")>>
      [] action = "prepare" -> <<SrcStep("run_prepare")>>
      [] action = "build" -> <<SrcStep("run_build")>>
      [] action = "install" -> <<SrcStep("run_install")>>
      [] action = "package" -> package(n)
      [] action = "repackage" -> <<SrcStep("run_install")>> \o package(n)
      [] action = "default" ->
            unpack \o <<SrcStep("run_prepare"), SrcStep("run_build"),
                        SrcStep("run_install")>> \o package(n)
      [] OTHER -> <<>>

\* __call__ up to "getattr(self, action)()": the error it raises, "return"
\* for the early return of would_build, or "none".
CallCheck(variant, action, skip, ignore_deps, missing) ==
    IF action \in Unchecked(variant) THEN "none"
    ELSE IF skip THEN "SkipBuild"
    ELSE IF action = "would_build" THEN "return"
    ELSE IF ~ignore_deps /\ missing THEN "UnmetDependency"
    ELSE "none"

NoCallYet ==
    [variant |-> "yaybondi", action |-> "none", n |-> 1, skip |-> FALSE,
     ignore_deps |-> FALSE, missing |-> FALSE, unresolved |-> {}]

IdleControl ==
    /\ ctCall = NoCallYet
    /\ ctPc = "new"
    /\ ctTodo = <<>>
    /\ ctLog = <<>>
    /\ ctErr = "none"

InitControl ==
    /\ ctCall = NoCallYet
    /\ ctPc = "new"
    /\ ctTodo = <<>>
    /\ ctLog = <<>>
    /\ ctErr = "none"

\* PackageControl(...)(action), up to the dispatch: the source package is
\* to be skipped or not, a build dependency is missing or not, and the
\* packages of unresolved hold a NEEDED library nothing provides.
Call ==
    /\ ctPc = "new"
    /\ \E variant \in Variants, n \in 1..MaxPkgs, skip \in BOOLEAN,
          ignore_deps \in BOOLEAN, missing \in BOOLEAN :
        \E action \in ActionsOf(variant), unresolved \in SUBSET (1..n) :
            LET check == CallCheck(variant, action, skip, ignore_deps,
                                   missing)
            IN  /\ ctCall' = [variant |-> variant, action |-> action,
                              n |-> n, skip |-> skip,
                              ignore_deps |-> ignore_deps,
                              missing |-> missing,
                              unresolved |-> unresolved]
                /\ ctPc' = IF check = "none" THEN "running"
                           ELSE IF check = "return" THEN "returned"
                           ELSE "raised"
                /\ ctErr' = IF check \in {"none", "return"} THEN "none"
                            ELSE check
                /\ ctTodo' = IF check = "none" THEN StepsOf(action, n)
                             ELSE <<>>
    /\ UNCHANGED ctLog
    /\ UNCHANGED nonControlVars

\* The next call of the action: shlib_deps raises for a library nothing
\* provides. (The boltlinux variant names the strip method
\* strip_debug_symbols_and_delete_rpath, BinaryPackage names it
\* strip_debug_symbols_and_unarm_rpath: the step is that method.)
Step ==
    /\ ctPc = "running"
    /\ ctTodo # <<>>
    /\ LET step == Head(ctTodo)
           err == IF step.op = "shlib_deps" /\ step.pkg \in ctCall.unresolved
                  THEN "UnmetDependency"
                  ELSE "none"
       IN  /\ ctErr' = err
           /\ ctPc' = IF err = "none" THEN "running" ELSE "raised"
           /\ ctLog' = IF err = "none" THEN Append(ctLog, step) ELSE ctLog
           /\ ctTodo' = IF err = "none" THEN Tail(ctTodo) ELSE <<>>
    /\ UNCHANGED ctCall
    /\ UNCHANGED nonControlVars

\* The action returns.
Return ==
    /\ ctPc = "running"
    /\ ctTodo = <<>>
    /\ ctPc' = "returned"
    /\ UNCHANGED <<ctCall, ctTodo, ctLog, ctErr>>
    /\ UNCHANGED nonControlVars

(***************************************************************************)
(* The "requires" relation of a binary package: DependencySpecification    *)
(* (basepackage.py), filled by from_xml and then by shlib_deps, which      *)
(* calls _find_and_register_dependency for each NEEDED library             *)
(* (binarypackage.py). The package being packed is "me", version "1".      *)
(***************************************************************************)
MaxNeeded == 2

\* BasePackage.Dependency(name, version)
Dependency(name, version) == [name |-> name, version |-> version]

EmptySpec == [list |-> <<>>, index |-> [n \in {} |-> Dependency("", "")]]

\* self.index[dep.name] = dep, for each dep of alternatives in turn
RECURSIVE IndexAll(_, _)
IndexAll(index, alternatives) ==
    IF alternatives = <<>> THEN index
    ELSE IndexAll(SetItem(index, alternatives[1].name, alternatives[1]),
                  Tail(alternatives))

\* The alternatives of a node of from_xml: its packages without an
\* "ignore" attribute.
RECURSIVE Alternatives(_)
Alternatives(pkgs) ==
    IF pkgs = <<>> THEN <<>>
    ELSE IF pkgs[1].ignore THEN Alternatives(Tail(pkgs))
    ELSE <<Dependency(pkgs[1].name, pkgs[1].version)>>
             \o Alternatives(Tail(pkgs))

\* DependencySpecification.from_xml from node i on.
RECURSIVE from_xml(_, _, _)
from_xml(nodes, i, spec) ==
    IF i > Len(nodes) THEN spec
    ELSE LET alternatives == Alternatives(nodes[i])
         IN  IF alternatives = <<>> THEN from_xml(nodes, i + 1, spec)
             ELSE from_xml(nodes, i + 1,
                      [list |-> Append(spec.list, alternatives),
                       index |-> IndexAll(spec.index, alternatives)])

\* The assignment without its test.
SetDependencyAlways(spec, key, value) ==
    [list |-> Append(spec.list, <<value>>),
     index |-> SetItem(spec.index, key, value)]

\* DependencySpecification.__setitem__
SetDependency(spec, key, value) ==
    IF key \notin DOMAIN spec.index
    THEN [list |-> Append(spec.list, <<value>>),
          index |-> SetItem(spec.index, key, value)]
    ELSE spec

\* The first loop of _find_and_register_dependency from candidate i on.
\* pkg_name is the local variable of that name ("unbound" before its first
\* assignment), "None" stands for None.
RECURSIVE CacheLoop(_, _, _, _, _, _)
CacheLoop(cands, i, word_size, spec, found, pkg_name) ==
    IF i > Len(cands)
    THEN [spec |-> spec, found |-> found, pkg_name |-> pkg_name]
    ELSE LET shared_obj == cands[i]
         IN  IF shared_obj.word # word_size
             THEN CacheLoop(cands, i + 1, word_size, spec, found, pkg_name)
             ELSE IF shared_obj.pkg = "None" \/ shared_obj.version = "None"
             THEN CacheLoop(cands, i + 1, word_size, spec, found,
                            shared_obj.pkg)
             ELSE IF shared_obj.pkg = "me"
             THEN [spec |-> spec, found |-> TRUE, pkg_name |-> "me"]
             ELSE CacheLoop(cands, i + 1, word_size,
                      SetDependency(spec, shared_obj.pkg,
                          Dependency(shared_obj.pkg,
                                     <<">=", shared_obj.version>>)),
                      TRUE, shared_obj.pkg)

\* The binary packages of the build, in the order of bin_pkgs.
bin_pkgs == <<"me", "other">>

\* The first of bin_pkgs whose contents hold the library ("" for none).
FirstHolder(holders) ==
    IF \E i \in 1..Len(bin_pkgs) : bin_pkgs[i] \in holders
    THEN bin_pkgs[CHOOSE i \in 1..Len(bin_pkgs) :
                     /\ bin_pkgs[i] \in holders
                     /\ \A j \in 1..(i - 1) : bin_pkgs[j] \notin holders]
    ELSE ""

\* _find_and_register_dependency(lib_name, shlib_cache, bin_pkgs,
\* word_size): cands is shlib_cache.get(lib_name, []), holders the built
\* packages with lib_name in their contents. The result is the relation
\* and the error raised.
_find_and_register_dependency(spec, cands, word_size, holders) ==
    LET first == CacheLoop(cands, 1, word_size, spec, FALSE, "unbound")
        pkg == FirstHolder(holders)
    IN  IF first.found THEN [spec |-> first.spec, err |-> "none"]
        ELSE IF pkg = "" THEN [spec |-> first.spec, err |-> "UnmetDependency"]
        ELSE IF pkg = "me" THEN [spec |-> first.spec, err |-> "none"]
        ELSE IF first.pkg_name = "unbound"
        THEN [spec |-> first.spec, err |-> "UnboundLocalError"]
        ELSE [spec |-> SetDependency(first.spec, first.pkg_name,
                           Dependency(first.pkg_name, <<">=", "1">>)),
              err |-> "none"]

\* The shared objects the cache can hold for a library: the word size, the
\* package that provides the path and its installed version.
SharedObjects ==
    {[word |-> 64, pkg |-> "me", version |-> "1"],
     [word |-> 64, pkg |-> "other", version |-> "1"],
     [word |-> 32, pkg |-> "libc", version |-> "1"],
     [word |-> 64, pkg |-> "None", version |-> "None"],
     [word |-> 64, pkg |-> "me", version |-> "None"]}

\* The children of <requires>: a package, or a choice of packages.
Package(name, version, ignore) ==
    [name |-> name, version |-> version, ignore |-> ignore]

RequiresNodes ==
    {<<>>,
     <<(<<Package("other", <<"=", "2">>, FALSE)>>)>>,
     <<(<<Package("libc", <<>>, FALSE), Package("other", <<>>, FALSE)>>),
       (<<Package("other", <<"<<", "3">>, FALSE)>>)>>,
     <<(<<Package("libc", <<>>, TRUE)>>), (<<Package("me", <<>>, FALSE)>>)>>}

NoResolution ==
    [done |-> FALSE, cands |-> <<>>, word_size |-> 64, holders |-> {},
     before |-> EmptySpec]

IdleDeps ==
    /\ dpPc = "new"
    /\ dpDeclared = EmptySpec
    /\ dpSpec = EmptySpec
    /\ dpCall = NoResolution
    /\ dpNeeded = 0
    /\ dpErr = "none"

InitDeps ==
    /\ dpPc = "new"
    /\ dpDeclared = EmptySpec
    /\ dpSpec = EmptySpec
    /\ dpCall = NoResolution
    /\ dpNeeded = 0
    /\ dpErr = "none"

\* self.relations["requires"] = DependencySpecification.from_xml(node)
FromXml ==
    /\ dpPc = "new"
    /\ \E nodes \in RequiresNodes :
        /\ dpSpec' = from_xml(nodes, 1, EmptySpec)
        /\ dpDeclared' = from_xml(nodes, 1, EmptySpec)
    /\ dpPc' = "declared"
    /\ UNCHANGED <<dpCall, dpNeeded, dpErr>>
    /\ UNCHANGED nonDepsVars

\* shlib_deps: one more NEEDED line of objdump, and the call of
\* _find_and_register_dependency for it.
FindAndRegister ==
    /\ dpPc = "declared"
    /\ dpNeeded < MaxNeeded
    /\ \E cands \in SeqsUpTo(SharedObjects, 2),
          word_size \in {32, 64}, holders \in SUBSET {"me", "other"} :
        LET r == _find_and_register_dependency(dpSpec, cands, word_size,
                                               holders)
        IN  /\ dpSpec' = r.spec
            /\ dpErr' = r.err
            /\ dpPc' = IF r.err = "none" THEN "declared" ELSE "raised"
            /\ dpCall' = [done |-> TRUE, cands |-> cands,
                          word_size |-> word_size, holders |-> holders,
                          before |-> dpSpec]
    /\ dpNeeded' = dpNeeded + 1
    /\ UNCHANGED dpDeclared
    /\ UNCHANGED nonDepsVars

\* objdump has no more lines: shlib_deps returns.
ShlibDepsReturn ==
    /\ dpPc = "declared"
    /\ dpPc' = "resolved"
    /\ UNCHANGED <<dpDeclared, dpSpec, dpCall, dpNeeded, dpErr>>
    /\ UNCHANGED nonDepsVars

(***************************************************************************)
(* ArchiveFileReader.unpack_to_disk (libarchive.py): where an entry of an  *)
(* archive is created. A pathname is a text over the letter "a", the dot,  *)
(* the slash and the space; base_dir is the directory /B. A place of the   *)
(* file system is the sequence of the names from the root down to it.      *)
(***************************************************************************)
MaxPathLen == 5
MaxStrip == 2

PathAlphabet == {"a", ".", "/", " "}

\* re.sub(r"^(?:\.+/+)", "", pathname): a leading run of dots followed by
\* a run of slashes is removed, once.
RECURSIVE LeadingRun(_, _)
LeadingRun(s, c) ==
    IF s # <<>> /\ s[1] = c THEN 1 + LeadingRun(Tail(s), c) ELSE 0

StripLeadingDots(s) ==
    LET dots == LeadingRun(s, ".")
        slashes == LeadingRun(Drop(s, dots), "/")
    IN  IF dots > 0 /\ slashes > 0 THEN Drop(s, dots + slashes) ELSE s

\* str.split(sep)
RECURSIVE split(_, _)
split(s, sep) ==
    IF Find(s, sep) = 0 THEN <<s>>
    ELSE <<Take(s, Find(s, sep) - 1)>> \o split(Drop(s, Find(s, sep)), sep)

\* os.sep.join([base_dir, ] + pathname.split(os.sep)[strip_components:]),
\* as the list of the components below base_dir.
TargetParts(pathname, strip_components) ==
    LET clean == StripLeadingDots(strip(pathname))
        parts == split(clean, "/")
    IN  Drop(parts, IF strip_components > Len(parts) THEN Len(parts)
                    ELSE strip_components)

\* The place a path names, walked from a place on: "" and "." stay, ".."
\* goes to the parent (the root is its own parent), a name goes down.
RECURSIVE Walk(_, _)
Walk(place, parts) ==
    IF parts = <<>> THEN place
    ELSE IF parts[1] \in {<<>>, <<".">>} THEN Walk(place, Tail(parts))
    ELSE IF parts[1] = <<".", ".">>
    THEN Walk(IF place = <<>> THEN place ELSE Take(place, Len(place) - 1),
              Tail(parts))
    ELSE Walk(Append(place, parts[1]), Tail(parts))

base_dir == <<(<<"B">>)>>

\* The places the call creates for an entry: os.makedirs creates the
\* directories down to the entry (for a directory) or to its parent (for
\* the others), then the entry itself is created unless it is a special
\* file. base_dir and the directories above it exist before the call.
Creates(pathname, type, strip_components) ==
    LET parts == TargetParts(pathname, strip_components)
        upto == IF type = "special" THEN Len(parts) - 1 ELSE Len(parts)
    IN  {Walk(base_dir, Take(parts, k)) : k \in 1..upto}
            \ {Take(base_dir, k) : k \in 0..Len(base_dir)}

EntryTypes == {"directory", "file", "symbolic_link", "special"}

IdleUnpack ==
    /\ uaPc = "closed"
    /\ uaEntry = [pathname |-> <<>>, type |-> "file"]
    /\ uaStrip = 0
    /\ uaMade = {}
    /\ uaErr = "none"

\* ArchiveFileReader(archive_file), and the strip_components of the call.
InitUnpack ==
    /\ uaPc = "open"
    /\ uaEntry = [pathname |-> <<>>, type |-> "file"]
    /\ uaStrip \in 0..MaxStrip
    /\ uaMade = {}
    /\ uaErr = "none"

\* One turn of "for entry in self": the entry is created at its target, or
\* ArchiveError is raised for a special file.
UnpackEntry ==
    /\ uaPc = "open"
    /\ \E pathname \in SeqsUpTo(PathAlphabet, MaxPathLen),
          type \in EntryTypes :
        /\ uaEntry' = [pathname |-> pathname, type |-> type]
        /\ uaMade' = uaMade \cup Creates(pathname, type, uaStrip)
        /\ uaErr' = IF type = "special" THEN "ArchiveError" ELSE "none"
        /\ uaPc' = IF type = "special" THEN "raised" ELSE "unpacked"
    /\ UNCHANGED uaStrip
    /\ UNCHANGED nonUnpackVars

\* The archive has no more entries.
UnpackReturn ==
    /\ uaPc = "unpacked"
    /\ uaPc' = "returned"
    /\ UNCHANGED <<uaEntry, uaStrip, uaMade, uaErr>>
    /\ UNCHANGED nonUnpackVars

(***************************************************************************)
(* BinaryPackage.generate_file_list (binarypackage.py): the content list   *)
(* of a binary package. A path is the sequence of its names from the root  *)
(* down, <<>> being "/"; basedir holds a part of the tree /usr/bin/foo,    *)
(* /usr/bin/bar, /etc. A src is a path, or a path followed by "/*".        *)
(***************************************************************************)
MaxDecls == 2

RegularFiles == {<<"usr", "bin", "foo">>, <<"usr", "bin", "bar">>}

Directories == {<<>>, <<"usr">>, <<"usr", "bin">>, <<"etc">>}

\* os.path.dirname of a path: "/" is its own parent.
dirname(k) == IF k = <<>> THEN k ELSE Take(k, Len(k) - 1)

\* The contents basedir can have: basedir itself, and with a file or a
\* directory the directories above it.
Disks ==
    {d \in SUBSET (RegularFiles \cup Directories) :
        <<>> \in d /\ \A p \in d : dirname(p) \in d}

\* Path(basedir).glob(rel_path) for a src "<path>/*": the children of the
\* path.
Glob(disk, path) == {p \in disk : p # <<>> /\ dirname(p) = path}

\* Path(basedir).rglob(rel_path + "/**/*"): everything below the path.
Rglob(disk, path) ==
    {p \in disk : Len(p) > Len(path) /\ Take(p, Len(path)) = path}

\* contents[k] = v
Put(contents, k, v) ==
    [x \in DOMAIN contents \cup {k} |->
        IF x = k THEN v ELSE contents[x]]

\* "for path in listing": a path already in contents is skipped, the
\* others become file entries with the mode of the declaration.
AddListing(contents, listing, mode) ==
    [x \in DOMAIN contents \cup listing |->
        IF x \in DOMAIN contents THEN contents[x]
        ELSE [deftype |-> "file", mode |-> mode]]

\* One turn of "for src, attr in self.content_spec.items()".
\* FileStats.detect_from_filename raises ValueError for a path that does
\* not exist.
ExpandDecl(contents, decl, disk) ==
    LET path == decl.src.path
        attr == [deftype |-> decl.deftype, mode |-> decl.mode]
    IN  IF decl.deftype = "dir" THEN Ret(Put(contents, path, attr))
        ELSE IF decl.src.star
        THEN Ret(AddListing(contents, Glob(disk, path), decl.mode))
        ELSE IF path \in disk /\ path \in Directories
        THEN Ret(AddListing(
                    IF path \in DOMAIN contents THEN contents
                    ELSE Put(contents, path, attr),
                    Rglob(disk, path), decl.mode))
        ELSE IF path \notin disk THEN Raise("ValueError")
        ELSE Ret(Put(contents, path, attr))

RECURSIVE ExpandAll(_, _, _, _)
ExpandAll(content_spec, i, contents, disk) ==
    IF i > Len(content_spec) THEN Ret(contents)
    ELSE LET r == ExpandDecl(contents, content_spec[i], disk)
         IN  IF r.err # "none" THEN r
             ELSE ExpandAll(content_spec, i + 1, r.val, disk)

\* The "while k != '/' and k != ''" loop of one key: k = dirname(k) comes
\* before the test of the body, so that every directory above the key is
\* looked at, "/" included.
RECURSIVE Above(_)
Above(k) == IF k = <<>> THEN {} ELSE {dirname(k)} \cup Above(dirname(k))

AboveBelowRoot(k) == Above(k) \ {<<>>}

WalkUp(k) == Above(k)

\* The post-pass over the keys of contents, and contents.update. No byte
\* code files are collected: the tree holds no .py file.
AddParents(contents, disk) ==
    LET extra == {k \in UNION {WalkUp(p) : p \in DOMAIN contents} :
                    k \notin DOMAIN contents /\ k \in disk}
    IN  [x \in DOMAIN contents \cup extra |->
            IF x \in extra THEN [deftype |-> "dir", mode |-> "None"]
            ELSE contents[x]]

\* filter_etc_var: item[0][0:4] in ["/etc", "/var"]. The only name of the
\* tree that begins with etc or var is etc.
filter_etc_var(path) == ~(path # <<>> /\ path[1] \in {"etc", "var"})

\* The order of str on the paths: the names hold letters only, which come
\* after "/", so that the paths compare name by name.
NameOrder == <<"bar", "bin", "etc", "foo", "usr", "var">>

NameRank(n) == CHOOSE i \in 1..Len(NameOrder) : NameOrder[i] = n

RECURSIVE PathBefore(_, _)
PathBefore(p, q) ==
    IF p = <<>> THEN q # <<>>
    ELSE IF q = <<>> THEN FALSE
    ELSE IF p[1] = q[1] THEN PathBefore(Tail(p), Tail(q))
    ELSE NameRank(p[1]) < NameRank(q[1])

\* OrderedDict(sorted(set(contents.items()), key=lambda x: x[0]))
RECURSIVE SortedContents(_, _)
SortedContents(contents, keys) ==
    IF keys = {} THEN <<>>
    ELSE LET k == CHOOSE x \in keys : \A y \in keys \ {x} : PathBefore(x, y)
         IN  <<[path |-> k, deftype |-> contents[k].deftype,
                mode |-> contents[k].mode]>>
                 \o SortedContents(contents, keys \ {k})

generate_file_list(content_spec, disk, architecture) ==
    LET r == ExpandAll(content_spec, 1, <<>>, disk)
        all == AddParents(r.val, disk)
        keys == IF architecture = "tools"
                THEN {k \in DOMAIN all : filter_etc_var(k)}
                ELSE DOMAIN all
    IN  IF r.err # "none" THEN r ELSE Ret(SortedContents(all, keys))

\* The src attributes of the contents nodes, and the nodes.
Sources ==
    {[path |-> <<"usr", "bin">>, star |-> TRUE],
     [path |-> <<"usr">>, star |-> FALSE],
     [path |-> <<"usr", "bin", "foo">>, star |-> FALSE],
     [path |-> <<"etc">>, star |-> FALSE]}

ContentNodes ==
    {[deftype |-> "file", src |-> s, mode |-> m] :
        s \in Sources, m \in {"0755", "None"}}
    \cup {[deftype |-> "dir", src |-> s, mode |-> "None"] :
            s \in {x \in Sources : ~x.star}}

IdleFiles ==
    /\ flPc = "none"
    /\ flDisk = {}
    /\ flArch = "all"
    /\ flSpec = <<>>
    /\ flContents = <<>>
    /\ flErr = "none"

\* BinaryPackage(xml_config) before the contents nodes are read.
InitFiles ==
    /\ flPc = "init"
    /\ flDisk \in Disks
    /\ flArch \in {"all", "tools"}
    /\ flSpec = <<>>
    /\ flContents = <<>>
    /\ flErr = "none"

\* One turn of "for node in bin_node.findall('contents/*')": a dir node
\* gives way to a file node of the same src, another node replaces the
\* entry of its src at the place it has.
Declare ==
    /\ flPc = "init"
    /\ Len(flSpec) < MaxDecls
    /\ \E node \in ContentNodes :
        LET at == {i \in 1..Len(flSpec) : flSpec[i].src = node.src}
        IN  flSpec' =
                IF at = {} THEN Append(flSpec, node)
                ELSE LET i == CHOOSE x \in at : TRUE
                     IN  IF flSpec[i].deftype = "file"
                            /\ node.deftype = "dir"
                         THEN flSpec
                         ELSE [flSpec EXCEPT ![i] = node]
    /\ UNCHANGED <<flPc, flDisk, flArch, flContents, flErr>>
    /\ UNCHANGED nonFilesVars

GenerateFileList ==
    /\ flPc = "init"
    /\ LET r == generate_file_list(flSpec, flDisk, flArch)
       IN  /\ flErr' = r.err
           /\ flContents' = IF r.err = "none" THEN r.val ELSE <<>>
           /\ flPc' = IF r.err = "none" THEN "done" ELSE "raised"
    /\ UNCHANGED <<flDisk, flArch, flSpec>>
    /\ UNCHANGED nonFilesVars

(***************************************************************************)
(* Subprocess.run (subprocess.py): the parent of a forked child, the       *)
(* child, and the other processes of the child's process group. The       *)
(* parent is interrupted at most once in a call: KeyboardInterrupt or      *)
(* SystemExit is raised at the statement it is about to execute.           *)
(***************************************************************************)
Interrupts == {"KeyboardInterrupt", "SystemExit"}

ExitStatuses == {"exit0", "exit1", "signaled"}

\* The positions of the parent the try statement of run encloses.
InsideTry == {"select", "read", "waitpid", "check"}

NoInterrupt == [exc |-> "none", at |-> "none", reaped |-> FALSE]

IdleSubprocess ==
    /\ spPc = "none"
    /\ spCheck = FALSE
    /\ spChild = "none"
    /\ spOthers = FALSE
    /\ spStatus = "none"
    /\ spExitNext = FALSE
    /\ spIntr = NoInterrupt
    /\ spKilled = FALSE
    /\ spRaised = "none"

\* Subprocess.run(sysroot, exe, args, check=...) is called.
InitSubprocess ==
    /\ spPc = "fork"
    /\ spCheck \in BOOLEAN
    /\ spChild = "none"
    /\ spOthers = FALSE
    /\ spStatus = "none"
    /\ spExitNext = FALSE
    /\ spIntr = NoInterrupt
    /\ spKilled = FALSE
    /\ spRaised = "none"

\* os.pipe(), os.forkpty(): the child is the leader of a new session and
\* of a new process group.
Fork ==
    /\ spPc = "fork"
    /\ spPc' = "close"
    /\ spChild' = "running"
    /\ UNCHANGED <<spCheck, spOthers, spStatus, spExitNext, spIntr,
                   spKilled, spRaised>>
    /\ UNCHANGED nonSubprocessVars

\* FileDescriptors(...) and os.close(err_w), before the try statement;
\* then _run_parent up to the loop.
CloseErrW ==
    /\ spPc = "close"
    /\ spPc' = "select"
    /\ UNCHANGED <<spCheck, spChild, spOthers, spStatus, spExitNext,
                   spIntr, spKilled, spRaised>>
    /\ UNCHANGED nonSubprocessVars

\* select.select returns.
Select ==
    /\ spPc = "select"
    /\ spPc' = "read"
    /\ UNCHANGED <<spCheck, spChild, spOthers, spStatus, spExitNext,
                   spIntr, spKilled, spRaised>>
    /\ UNCHANGED nonSubprocessVars

\* The lines of the child are copied; "if exit_next: break".
ReadOutput ==
    /\ spPc = "read"
    /\ spPc' = IF spExitNext THEN "check" ELSE "waitpid"
    /\ UNCHANGED <<spCheck, spChild, spOthers, spStatus, spExitNext,
                   spIntr, spKilled, spRaised>>
    /\ UNCHANGED nonSubprocessVars

\* os.waitpid(child_pid, os.WNOHANG): (0, 0) while the child runs; a
\* child that has ended is reaped and the loop takes one more turn.
Waitpid ==
    /\ spPc = "waitpid"
    /\ spPc' = "select"
    /\ IF spChild = "zombie"
       THEN spChild' = "reaped" /\ spExitNext' = TRUE
       ELSE UNCHANGED <<spChild, spExitNext>>
    /\ UNCHANGED <<spCheck, spOthers, spStatus, spIntr, spKilled, spRaised>>
    /\ UNCHANGED nonSubprocessVars

\* "if check": Subprocess.Error for a child ended by a signal or with a
\* status other than 0.
CheckStatus ==
    /\ spPc = "check"
    /\ IF spCheck /\ spStatus # "exit0"
       THEN spPc' = "raised" /\ spRaised' = "Subprocess.Error"
       ELSE spPc' = "returned" /\ UNCHANGED spRaised
    /\ UNCHANGED <<spCheck, spChild, spOthers, spStatus, spExitNext,
                   spIntr, spKilled>>
    /\ UNCHANGED nonSubprocessVars

\* The interrupt is raised in the parent. Inside the try statement the
\* except clause is entered; before it the interrupt leaves run.
Interrupt ==
    /\ spPc \in {"close"} \cup InsideTry
    /\ spIntr.exc = "none"
    /\ \E exc \in Interrupts :
        /\ spIntr' = [exc |-> exc, at |-> spPc,
                      reaped |-> spChild = "reaped"]
        /\ IF spPc \in InsideTry
           THEN spPc' = "kill" /\ UNCHANGED spRaised
           ELSE spPc' = "raised" /\ spRaised' = exc
    /\ UNCHANGED <<spCheck, spChild, spOthers, spStatus, spExitNext,
                   spKilled>>
    /\ UNCHANGED nonSubprocessVars

\* os.kill(-child_pid, signal.SIGKILL): the group exists as long as the
\* child is not reaped or another member runs; ProcessLookupError
\* otherwise, raised in the except clause.
HandlerKill ==
    /\ spPc = "kill"
    /\ IF spChild \in {"running", "zombie"} \/ spOthers
       THEN /\ spKilled' = TRUE
            /\ spOthers' = FALSE
            /\ spChild' = IF spChild = "running" THEN "zombie" ELSE spChild
            /\ spStatus' = IF spChild = "running" THEN "signaled"
                           ELSE spStatus
            /\ spPc' = "wait"
            /\ UNCHANGED spRaised
       ELSE /\ spPc' = "raised"
            /\ spRaised' = "ProcessLookupError"
            /\ UNCHANGED <<spKilled, spOthers, spChild, spStatus>>
    /\ UNCHANGED <<spCheck, spExitNext, spIntr>>
    /\ UNCHANGED nonSubprocessVars

\* os.waitpid(child_pid, 0) and "raise": ChildProcessError when the child
\* was reaped before.
HandlerWait ==
    /\ spPc = "wait"
    /\ spPc' = "raised"
    /\ IF spChild = "zombie"
       THEN spChild' = "reaped" /\ spRaised' = spIntr.exc
       ELSE spRaised' = "ChildProcessError" /\ UNCHANGED spChild
    /\ UNCHANGED <<spCheck, spOthers, spStatus, spExitNext, spIntr,
                   spKilled>>
    /\ UNCHANGED nonSubprocessVars

\* The child starts a process in its group.
Spawn ==
    /\ spChild = "running"
    /\ ~spOthers
    /\ spOthers' = TRUE
    /\ UNCHANGED <<spPc, spCheck, spChild, spStatus, spExitNext, spIntr,
                   spKilled, spRaised>>
    /\ UNCHANGED nonSubprocessVars

\* The other processes of the group end.
OthersExit ==
    /\ spOthers
    /\ spOthers' = FALSE
    /\ UNCHANGED <<spPc, spCheck, spChild, spStatus, spExitNext, spIntr,
                   spKilled, spRaised>>
    /\ UNCHANGED nonSubprocessVars

\* _run_child: the program executed ends, or os._exit(-1) after a failure.
ChildExit ==
    /\ spChild = "running"
    /\ spChild' = "zombie"
    /\ spStatus' \in ExitStatuses
    /\ UNCHANGED <<spPc, spCheck, spOthers, spExitNext, spIntr, spKilled,
                   spRaised>>
    /\ UNCHANGED nonSubprocessVars

(***************************************************************************)
(* Specifications, one per component.                                      *)
(***************************************************************************)
NextVersion == CompareVersions

NextVersion3 == CompareTriple

NextFilter == Parse

NextPack == AddEntry \/ DoPack

NextDownload ==
    \/ DlCall \/ DlWriteChunk \/ DlBodyDone \/ DlChmod \/ DlRenameBlob
    \/ DlSymlink \/ DlRenameLink \/ DlFail \/ DlHandlerTmp \/ DlHandlerBlob
    \/ DlClose \/ DlUnlinkOld

NextCache ==
    \E b \in Builders :
        \/ LocateArchiveFile(b) \/ FindAndRetrieve(b) \/ FetchFromCache(b)
        \/ FetchFromRepo(b) \/ FetchFromUpstream(b) \/ FetchWrite(b)
        \/ FetchCompare(b) \/ FetchDownloadError(b) \/ FetchRaise(b)
        \/ ReturnPkg(b) \/ Unpack(b)

StartVersion ==
    InitVersion /\ IdleFilter /\ IdlePack /\ IdleDownload /\ IdleCache
        /\ IdleLaws /\ IdlePrune /\ IdleBuild /\ IdleMeta /\ IdleIndex
        /\ IdleControl /\ IdleDeps /\ IdleUnpack /\ IdleFiles
        /\ IdleSubprocess

SpecVersion == StartVersion /\ [][NextVersion]_vars

StartVersion3 ==
    InitVersion3 /\ IdleFilter /\ IdlePack /\ IdleDownload /\ IdleCache
        /\ IdleLaws /\ IdlePrune /\ IdleBuild /\ IdleMeta /\ IdleIndex
        /\ IdleControl /\ IdleDeps /\ IdleUnpack /\ IdleFiles
        /\ IdleSubprocess

SpecVersion3 == StartVersion3 /\ [][NextVersion3]_vars

StartFilter ==
    IdleVersion /\ InitFilter /\ IdlePack /\ IdleDownload /\ IdleCache
        /\ IdleLaws /\ IdlePrune /\ IdleBuild /\ IdleMeta /\ IdleIndex
        /\ IdleControl /\ IdleDeps /\ IdleUnpack /\ IdleFiles
        /\ IdleSubprocess

SpecFilter == StartFilter /\ [][NextFilter]_vars

StartPack ==
    IdleVersion /\ IdleFilter /\ InitPack /\ IdleDownload /\ IdleCache
        /\ IdleLaws /\ IdlePrune /\ IdleBuild /\ IdleMeta /\ IdleIndex
        /\ IdleControl /\ IdleDeps /\ IdleUnpack /\ IdleFiles
        /\ IdleSubprocess

SpecPack == StartPack /\ [][NextPack]_vars

StartDownload ==
    IdleVersion /\ IdleFilter /\ IdlePack /\ InitDownload /\ IdleCache
        /\ IdleLaws /\ IdlePrune /\ IdleBuild /\ IdleMeta /\ IdleIndex
        /\ IdleControl /\ IdleDeps /\ IdleUnpack /\ IdleFiles
        /\ IdleSubprocess

SpecDownload == StartDownload /\ [][NextDownload]_vars

StartCache ==
    IdleVersion /\ IdleFilter /\ IdlePack /\ IdleDownload /\ InitCache
        /\ IdleLaws /\ IdlePrune /\ IdleBuild /\ IdleMeta /\ IdleIndex
        /\ IdleControl /\ IdleDeps /\ IdleUnpack /\ IdleFiles
        /\ IdleSubprocess

SpecCache == StartCache /\ [][NextCache]_vars

StartSyntax ==
    IdleVersion /\ InitSyntax /\ IdlePack /\ IdleDownload /\ IdleCache
        /\ IdleLaws /\ IdlePrune /\ IdleBuild /\ IdleMeta /\ IdleIndex
        /\ IdleControl /\ IdleDeps /\ IdleUnpack /\ IdleFiles
        /\ IdleSubprocess

SpecSyntax == StartSyntax /\ [][NextFilter]_vars

NextLaws ==
    ParseLaws

StartLaws ==
    IdleVersion /\ IdleFilter /\ IdlePack /\ IdleDownload /\ IdleCache
        /\ InitLaws /\ IdlePrune /\ IdleBuild /\ IdleMeta /\ IdleIndex
        /\ IdleControl /\ IdleDeps /\ IdleUnpack /\ IdleFiles
        /\ IdleSubprocess

SpecLaws == StartLaws /\ [][NextLaws]_vars

NextPrune ==
    \/ PreprocessVisit \/ PreprocessIterDone \/ PreprocessRemove
    \/ PreprocessReturn

StartPrune ==
    IdleVersion /\ IdleFilter /\ IdlePack /\ IdleDownload /\ IdleCache
        /\ IdleLaws /\ InitPrune /\ IdleBuild /\ IdleMeta /\ IdleIndex
        /\ IdleControl /\ IdleDeps /\ IdleUnpack /\ IdleFiles
        /\ IdleSubprocess

SpecPrune == StartPrune /\ [][NextPrune]_vars

NextBuild ==
    \/ AddDir \/ AddFile \/ AddLink \/ Strip \/ WriteDataPart
    \/ WriteControlPart \/ WriteArchive \/ PackDebug

StartBuild ==
    IdleVersion /\ IdleFilter /\ IdlePack /\ IdleDownload /\ IdleCache
        /\ IdleLaws /\ IdlePrune /\ InitBuild /\ IdleMeta /\ IdleIndex
        /\ IdleControl /\ IdleDeps /\ IdleUnpack /\ IdleFiles
        /\ IdleSubprocess

SpecBuild == StartBuild /\ [][NextBuild]_vars

NextMeta ==
    \/ MetaData \/ SetInstalledSize \/ WriteControl

StartMeta ==
    IdleVersion /\ IdleFilter /\ IdlePack /\ IdleDownload /\ IdleCache
        /\ IdleLaws /\ IdlePrune /\ IdleBuild /\ InitMeta /\ IdleIndex
        /\ IdleControl /\ IdleDeps /\ IdleUnpack /\ IdleFiles
        /\ IdleSubprocess

SpecMeta == StartMeta /\ [][NextMeta]_vars

NextIndex ==
    \/ PoolAdd \/ PoolRemove \/ RemoveSigned
    \/ UpdatePackageIndex \/ LoadPackageIndex

StartIndex ==
    IdleVersion /\ IdleFilter /\ IdlePack /\ IdleDownload /\ IdleCache
        /\ IdleLaws /\ IdlePrune /\ IdleBuild /\ IdleMeta /\ InitIndex
        /\ IdleControl /\ IdleDeps /\ IdleUnpack /\ IdleFiles
        /\ IdleSubprocess

SpecIndex == StartIndex /\ [][NextIndex]_vars

NextControl ==
    \/ Call \/ Step \/ Return

StartControl ==
    IdleVersion /\ IdleFilter /\ IdlePack /\ IdleDownload /\ IdleCache
        /\ IdleLaws /\ IdlePrune /\ IdleBuild /\ IdleMeta /\ IdleIndex
        /\ InitControl /\ IdleDeps /\ IdleUnpack /\ IdleFiles
        /\ IdleSubprocess

SpecControl == StartControl /\ [][NextControl]_vars

NextDeps ==
    \/ FromXml \/ FindAndRegister \/ ShlibDepsReturn

StartDeps ==
    IdleVersion /\ IdleFilter /\ IdlePack /\ IdleDownload /\ IdleCache
        /\ IdleLaws /\ IdlePrune /\ IdleBuild /\ IdleMeta /\ IdleIndex
        /\ IdleControl /\ InitDeps /\ IdleUnpack /\ IdleFiles
        /\ IdleSubprocess

SpecDeps == StartDeps /\ [][NextDeps]_vars

NextUnpack ==
    \/ UnpackEntry \/ UnpackReturn

StartUnpack ==
    IdleVersion /\ IdleFilter /\ IdlePack /\ IdleDownload /\ IdleCache
        /\ IdleLaws /\ IdlePrune /\ IdleBuild /\ IdleMeta /\ IdleIndex
        /\ IdleControl /\ IdleDeps /\ InitUnpack /\ IdleFiles
        /\ IdleSubprocess

SpecUnpack == StartUnpack /\ [][NextUnpack]_vars

NextFiles ==
    \/ Declare \/ GenerateFileList

StartFiles ==
    IdleVersion /\ IdleFilter /\ IdlePack /\ IdleDownload /\ IdleCache
        /\ IdleLaws /\ IdlePrune /\ IdleBuild /\ IdleMeta /\ IdleIndex
        /\ IdleControl /\ IdleDeps /\ IdleUnpack /\ InitFiles
        /\ IdleSubprocess

SpecFiles == StartFiles /\ [][NextFiles]_vars

NextSubprocess ==
    \/ Fork \/ CloseErrW \/ Select \/ ReadOutput \/ Waitpid
    \/ CheckStatus \/ Interrupt \/ HandlerKill \/ HandlerWait
    \/ Spawn \/ OthersExit \/ ChildExit

StartSubprocess ==
    IdleVersion /\ IdleFilter /\ IdlePack /\ IdleDownload /\ IdleCache
        /\ IdleLaws /\ IdlePrune /\ IdleBuild /\ IdleMeta /\ IdleIndex
        /\ IdleControl /\ IdleDeps /\ IdleUnpack /\ IdleFiles
        /\ InitSubprocess

SpecSubprocess == StartSubprocess /\ [][NextSubprocess]_vars

Init ==
    /\ (InitVersion \/ InitVersion3) /\ (InitFilter \/ InitSyntax)
    /\ InitPack
    /\ InitDownload /\ InitCache
    /\ InitLaws
    /\ InitPrune
    /\ InitBuild
    /\ InitMeta
    /\ InitIndex
    /\ InitControl
    /\ InitDeps
    /\ InitUnpack
    /\ InitFiles
    /\ InitSubprocess

Next ==
    \/ CompareVersions \/ CompareTriple \/ Parse \/ AddEntry \/ DoPack
    \/ NextDownload \/ NextCache
    \/ NextLaws
    \/ NextPrune
    \/ NextBuild
    \/ NextMeta
    \/ NextIndex
    \/ NextControl
    \/ NextDeps
    \/ NextUnpack
    \/ NextFiles
    \/ NextSubprocess

Spec == Init /\ [][Next]_vars

(***************************************************************************)
(* Claims on the version algebra.                                          *)
(***************************************************************************)

\* C6: compare_versions is transitive: compare(a,b) < 0 and compare(b,c) < 0
\* imply compare(a,c) < 0.
C6_Transitive ==
    (verDone /\ rab = Ret(-1) /\ rbc = Ret(-1)) => rac = Ret(-1)

\* The numeric epoch of a matching version string, a missing epoch being 0.
Matches(s) == VersionMatch(s).ok

\* C7 as stated: epochs first and numerically (missing = 0), and the three
\* literal results -1, -1, -1.
C7_AsStated ==
    verDone =>
        /\ (Matches(va) /\ Matches(vb)
                /\ EpochOf(VersionMatch(va)) < EpochOf(VersionMatch(vb)))
            => rab = Ret(-1)
        /\ (Matches(va) /\ Matches(vb)
                /\ EpochOf(VersionMatch(va)) > EpochOf(VersionMatch(vb)))
            => rab = Ret(1)
        /\ (va = Str_1_2_3_1 /\ vb = Str_1_2_3_2) => rab = Ret(-1)
        /\ (va = Str_1c0_1 /\ vb = Str_2_1) => rab = Ret(-1)
        /\ (va = Str_1_0rc1_1 /\ vb = Str_1_0_1) => rab = Ret(-1)

\* C7 amended: epochs are compared first and numerically (missing = 0);
\* compare("1.2.3-1","1.2.3-2") = -1, compare("1:0-1","2-1") = +1 (epoch 1
\* against the missing epoch 0) and compare("1.0~rc1-1","1.0-1") = -1.
C7_EpochFirst ==
    verDone =>
        /\ (Matches(va) /\ Matches(vb)
                /\ EpochOf(VersionMatch(va)) < EpochOf(VersionMatch(vb)))
            => rab = Ret(-1)
        /\ (Matches(va) /\ Matches(vb)
                /\ EpochOf(VersionMatch(va)) > EpochOf(VersionMatch(vb)))
            => rab = Ret(1)
        /\ (va = Str_1_2_3_1 /\ vb = Str_1_2_3_2) => rab = Ret(-1)
        /\ (va = Str_1c0_1 /\ vb = Str_2_1) => rab = Ret(1)
        /\ (va = Str_1_0rc1_1 /\ vb = Str_1_0_1) => rab = Ret(-1)

C7_Witness ==
    verDone /\ va = Str_1c0_1 /\ vb = Str_2_1 /\ rab = Ret(1)

\* The rank the claim gives a character of a non-digit run:
\* '~' < pad < letters (ASCII) < '-' < '+' < '.'.
ClaimedRank(c) ==
    CASE c = "~" -> 0 [] c = " " -> 1 [] c = "-" -> 200 [] c = "+" -> 201
      [] c = "." -> 202 [] OTHER -> Ord[c]

RECURSIVE ClaimedRunOrder(_, _)
ClaimedRunOrder(p, q) ==
    IF p = <<>> THEN 0
    ELSE IF ClaimedRank(p[1]) > ClaimedRank(q[1]) THEN 1
    ELSE IF ClaimedRank(p[1]) < ClaimedRank(q[1]) THEN -1
    ELSE ClaimedRunOrder(Tail(p), Tail(q))

\* A version that is one non-digit run of ranked characters and nothing else.
IsRankedRun(s) ==
    /\ s # <<>>
    /\ \A i \in 1..Len(s) : s[i] \in {"~", "+", "."} \cup Letters

\* C8: two non-digit runs are ordered by padding the shorter with spaces and
\* ranking '~' < pad < letters < '-' < '+' < '.'.
C8_CharOrder ==
    (verDone /\ IsRankedRun(va) /\ IsRankedRun(vb)) =>
        LET n == IF Len(va) > Len(vb) THEN Len(va) ELSE Len(vb)
        IN rab = Ret(ClaimedRunOrder(Pad(va, n), Pad(vb, n)))

\* C9: a non-matching input makes the comparison fail with InvalidVersion,
\* and a matching pair never fails with another error.
C9_InvalidVersion ==
    verDone =>
        /\ (~Matches(va) \/ ~Matches(vb)) => rab = Raise("InvalidVersion")
        /\ (Matches(va) /\ Matches(vb)) => rab.err = "none"

\* C9, first half only: no ordering result for a non-matching input.
C9_NoOrderForInvalid ==
    (verDone /\ (~Matches(va) \/ ~Matches(vb))) => rab.err # "none"

\* C9, second half only: no other error for a matching pair.
C9_NoOtherError ==
    (verDone /\ Matches(va) /\ Matches(vb)) => rab.err = "none"

(***************************************************************************)
(* Claims on the filter parser.                                            *)
(***************************************************************************)
\* The reference evaluation of the grammar
\*   expr := or ; or := and ('or' and)* ; and := unary ('and' unary)* ;
\*   unary := '!' unary | atom ; atom := WORD | '(' expr ')'
\* on a token list: [ok, val, rest].
RefFail == [ok |-> FALSE, val |-> FALSE, rest |-> <<>>]

RefOk(v, rest) == [ok |-> TRUE, val |-> v, rest |-> rest]

\* A WORD is true iff it is a term or 'true', and is not 'false'.
RefWord(T, w) ==
    /\ (w \in T \/ w = <<"t", "r", "u", "e">>)
    /\ w # <<"f", "a", "l", "s", "e">>

RECURSIVE RefOr(_, _)
RECURSIVE RefOrTail(_, _, _)
RECURSIVE RefAnd(_, _)
RECURSIVE RefAndTail(_, _, _)
RECURSIVE RefUnary(_, _)

RefAtom(T, toks) ==
    IF toks = <<>> THEN RefFail
    ELSE IF toks[1].typ = "word" THEN RefOk(RefWord(T, toks[1].tok), Tail(toks))
    ELSE IF toks[1].typ = "open"
    THEN LET r == RefOr(T, Tail(toks))
         IN IF r.ok /\ r.rest # <<>> /\ r.rest[1].typ = "close"
            THEN RefOk(r.val, Tail(r.rest))
            ELSE RefFail
    ELSE RefFail

RefUnary(T, toks) ==
    IF toks # <<>> /\ toks[1].typ = "not"
    THEN LET r == RefUnary(T, Tail(toks))
         IN IF r.ok THEN RefOk(~r.val, r.rest) ELSE RefFail
    ELSE RefAtom(T, toks)

RefAndTail(T, v, toks) ==
    IF toks # <<>> /\ toks[1].typ = "and"
    THEN LET r == RefUnary(T, Tail(toks))
         IN IF r.ok THEN RefAndTail(T, v /\ r.val, r.rest) ELSE RefFail
    ELSE RefOk(v, toks)

RefAnd(T, toks) ==
    LET r == RefUnary(T, toks)
    IN IF r.ok THEN RefAndTail(T, r.val, r.rest) ELSE RefFail

RefOrTail(T, v, toks) ==
    IF toks # <<>> /\ toks[1].typ = "or"
    THEN LET r == RefAnd(T, Tail(toks))
         IN IF r.ok THEN RefOrTail(T, v \/ r.val, r.rest) ELSE RefFail
    ELSE RefOk(v, toks)

RefOr(T, toks) ==
    LET r == RefAnd(T, toks)
    IN IF r.ok THEN RefOrTail(T, r.val, r.rest) ELSE RefFail

\* The text is the empty expression or derivable from the grammar.
Derivable(T, e) ==
    LET t == tokenize(e)
    IN /\ t.err = "none"
       /\ \/ t.toks = <<>>
          \/ (RefOr(T, t.toks).ok /\ RefOr(T, t.toks).rest = <<>>)

RefValue(T, e) ==
    LET t == tokenize(e)
    IN IF t.toks = <<>> THEN TRUE ELSE RefOr(T, t.toks).val

PyBool(v) == IF v THEN "True" ELSE "False"

\* C10: for every derivable expression, parse returns the value of the
\* reference evaluation ('!' over 'and' over 'or', parentheses, a WORD true
\* iff a term or 'true' and not 'false', the empty expression true).
C10_ParseIsReference ==
    (fpDone /\ Derivable(fpTerms, fpExpr)) =>
        fpResult = [err |-> "none", val |-> PyBool(RefValue(fpTerms, fpExpr))]

\* C10 for parsers whose true_terms do not hold the word 'false'.
C10_ExceptFalseTerm ==
    (fpDone /\ Derivable(fpTerms, fpExpr)
        /\ <<"f", "a", "l", "s", "e">> \notin fpTerms) =>
        fpResult = [err |-> "none", val |-> PyBool(RefValue(fpTerms, fpExpr))]

(***************************************************************************)
(* Claims on the binary package writer.                                    *)
(***************************************************************************)
Written == {f \in {"main", "dbg"} : pkBolt[f].written}

\* C4: every .bolt written has debian-binary, control.tar.gz, data.tar.gz as
\* its first three ar members, in this order, primary and -dbg alike.
C4_ArMemberOrder ==
    \A f \in Written :
        /\ Len(pkBolt[f].ar) >= 3
        /\ SubSeq(pkBolt[f].ar, 1, 3)
              = <<"debian-binary", "control.tar.gz", "data.tar.gz">>

C4_Witness == Written = {"main", "dbg"}

\* The byte total the claim speaks of: st_size over regular files and
\* symlinks, 1024 for every other entry.
RECURSIVE ClaimedTotal(_)
ClaimedTotal(contents) ==
    IF contents = <<>> THEN 0
    ELSE (IF contents[1].kind \in {"file", "symlink"}
          THEN contents[1].size ELSE 1024)
         + ClaimedTotal(Tail(contents))

Ceil1024(n) == (n + 1023) \div 1024

\* C5: Installed-Size = ceil(total / 1024) for every content list; a total
\* between 1 and 511 gives 1.
C5_InstalledSizeCeil ==
    pkBolt["main"].written =>
        pkBolt["main"].installedSize = Ceil1024(ClaimedTotal(pkContents))

\* C5, the special case alone: a total between 1 and 511 gives 1.
C5_SmallPackage ==
    (pkBolt["main"].written /\ ClaimedTotal(pkContents) \in 1..511) =>
        pkBolt["main"].installedSize = 1

(***************************************************************************)
(* Claims on the downloader.                                               *)
(***************************************************************************)
\* What a reader of the name finds on disk is the whole body.
CompleteFile(n) ==
    /\ dlFs[n].kind = "file"
    /\ dlIno[dlFs[n].ino].size = dlIno[dlFs[n].ino].total

\* C1: at every moment the blob <dir>/<tag> is absent or a complete file,
\* and the symlink is absent or points at a complete blob.
C1_CacheAtomicity ==
    /\ \A t \in Tags : dlFs[t].kind = "absent" \/ CompleteFile(t)
    /\ \/ dlFs[LinkName].kind = "absent"
       \/ /\ dlFs[LinkName].kind = "link"
          /\ CompleteFile(dlFs[LinkName].target)

\* C1 for the blobs alone.
C1_BlobsComplete ==
    \A t \in Tags : dlFs[t].kind = "absent" \/ CompleteFile(t)

\* C1 between calls: once download_named_tag has returned.
C1_AtRest == dlPc \in {"idle", "gc"} => C1_CacheAtomicity

(***************************************************************************)
(* Claims on the source cache.                                             *)
(***************************************************************************)
\* C2: a file fetched over the network is visible at the cache path only
\* once its SHA-256 has been compared with the expected one and matched.
C2_VisibleOnlyVerified == scFile.present => HashMatches(scFile.data)

\* C2, second half: when the checksum does not match, no file is left at
\* the cache path.
C2_NothingLeftOnMismatch ==
    \A b \in Builders :
        scOut[b] = Raise("BoltError") /\ (\A o \in Builders : scPc[o] # "fetch")
            => ~scFile.present

\* A body as some server sent it, whole.
WholeBodies == {GoodBody, CorruptBody}

\* C3: under every interleaving of the builders, no builder unpacks a
\* truncated or partially written cache file.
C3_NoPartialUnpack ==
    \A b \in Builders : scOut[b].err = "none" /\ scOut[b] # NotRead
        => scOut[b].val \in WholeBodies

\* C3: no builder is returned the path of a file that is not whole.
C3_NoPartialReturn ==
    \A b \in Builders : scPc[b] = "ret" /\ scPkg[b] = "path"
        => scFile.present /\ scFile.data \in WholeBodies

(***************************************************************************)
(* Claims on the laws of the filter parser.                                *)
(***************************************************************************)
BothParse == lwDone /\ lwRes.x.err = "none" /\ lwRes.y.err = "none"

\* "not v" of Python: False for True, True for False and for None.
NotLaw ==
    /\ lwRes.x.val = "True" => lwRes.not = Ret("False")
    /\ lwRes.x.val # "True" => lwRes.not = Ret("True")

AndLaw == lwRes.and = Ret(PyAnd(lwRes.x.val, lwRes.y.val))

ParenLaw == lwRes.paren = lwRes.x

IsOperand(T, e) ==
    LET t == tokenize(e)
    IN /\ t.err = "none"
       /\ t.toks # <<>>
       /\ RefUnary(T, t.toks).ok
       /\ RefUnary(T, t.toks).rest = <<>>

TypesOf(e) == [i \in 1..Len(tokenize(e).toks) |-> tokenize(e).toks[i].typ]

\* A character sequence that is not a token.
HasUnknown(e) == tokenize(e).err # "none"

\* The parenthesis depth after each token, from the left.
RECURSIVE DepthsFrom(_, _)
DepthsFrom(ts, d) ==
    IF ts = <<>> THEN <<d>>
    ELSE LET n == IF ts[1] = "open" THEN d + 1
                  ELSE IF ts[1] = "close" THEN d - 1 ELSE d
         IN <<d>> \o DepthsFrom(Tail(ts), n)

\* An unclosed '(' or an unmatched ')'.
Unbalanced(ts) ==
    LET ds == DepthsFrom(ts, 0)
    IN (\E i \in 1..Len(ds) : ds[i] < 0) \/ ds[Len(ds)] # 0

\* The type of the token at i, with "start" before the first token and "end"
\* after the last.
TypeAt(ts, i) ==
    IF i < 1 THEN "start" ELSE IF i > Len(ts) THEN "end" ELSE ts[i]

\* An operator that misses an operand.
DanglingOperator(ts) ==
    \E i \in 1..Len(ts) :
        \/ /\ ts[i] = "not"
           /\ TypeAt(ts, i + 1) \in {"end", "close", "and", "or"}
        \/ /\ ts[i] \in {"and", "or"}
           /\ \/ TypeAt(ts, i - 1) \in {"start", "open", "and", "or", "not"}
              \/ TypeAt(ts, i + 1) \in {"end", "close", "and", "or"}

\* Two operands with no operator between them; a pair of parentheses with
\* nothing inside is no operand (as in the test "s390x and ()").
AdjacentOperands(ts) ==
    /\ \A i \in 1..Len(ts) : ~(ts[i] = "open" /\ TypeAt(ts, i + 1) = "close")
    /\ \E i \in 1..Len(ts) :
        /\ ts[i] \in {"word", "close"}
        /\ TypeAt(ts, i + 1) \in {"word", "open", "not"}

Malformed(e) ==
    \/ HasUnknown(e)
    \/ Unbalanced(TypesOf(e))
    \/ DanglingOperator(TypesOf(e))
    \/ AdjacentOperands(TypesOf(e))

\* The errors of the built-in tests carry the message and position expected.
TestsAsExpected ==
    \A t \in ErrorTests :
        (fpDone /\ fpExpr = t.expr) =>
            fpError = [err |-> "SyntaxError", msg |-> t.msg, pos |-> t.pos]

\* C12: parse raises a syntax error, and returns no boolean, for every input
\* with an unbalanced parenthesis, a dangling operator, two operands without
\* an operator or a character sequence that is no token; the error carries
\* the position of the offending token as in the built-in tests.
C12_SyntaxErrors ==
    /\ (fpDone /\ Malformed(fpExpr)) =>
          (fpError.err = "SyntaxError" /\ fpResult.err = "SyntaxError")
    /\ TestsAsExpected

\* More opening tokens than _p_expr has levels.
TooDeep(ts) ==
    Cardinality({i \in 1..Len(ts) : ts[i] \in {"open", "not", "and", "or"}})
        > MaxLevel

\* C12 amended: as C12, except that an input nested deeper than 64 levels
\* may raise FilterParser.Error (too many levels of recursion) instead.
C12_SyntaxErrorsUpToDepth ==
    /\ (fpDone /\ Malformed(fpExpr)) =>
          \/ fpError.err = "SyntaxError" /\ fpResult.err = "SyntaxError"
          \/ /\ fpError.err = "Error" /\ fpResult.err = "Error"
             /\ TooDeep(TypesOf(fpExpr))
    /\ TestsAsExpected

\* A test input was parsed: the '!' without operand, at position 11.
C12_Witness ==
    /\ fpDone
    /\ fpExpr = <<"s", "3", "9", "0", "x", " ", "a", "n", "d", " ", "!">>
    /\ Malformed(fpExpr)
    /\ fpError = [err |-> "SyntaxError", msg |-> "not: no operand",
                  pos |-> 11]

(***************************************************************************)
(* Claims on the specfile preprocessor.                                    *)
(***************************************************************************)
IfValue(i) == parse(PreprocessTerms, sxDoc[i].if).val

HasIf(i) == sxDoc[i].if # NoAttr

Present(i) == InDocument(sxParent, i)

\* An ancestor of the element has a false 'if' and is no <source>.
RECURSIVE RemovedAncestor(_)
RemovedAncestor(i) ==
    LET p == sxDoc[i].parent
    IN /\ p # 0
       /\ \/ HasIf(p) /\ IfValue(p) = "False" /\ sxDoc[p].tag # "source"
          \/ RemovedAncestor(p)

KeptOnes ==
    \A i \in Elements :
        /\ (HasIf(i) /\ IfValue(i) = "False" /\ sxDoc[i].tag = "source")
              => (Present(i) /\ sxSkip[i] = sxDoc[i].if)
        /\ ((~HasIf(i) \/ IfValue(i) = "True") /\ ~RemovedAncestor(i))
              => Present(i)

Layers == <<"cache", "repo", "upstream">>

IsPrefix(s, t) == Len(s) <= Len(t) /\ \A i \in 1..Len(s) : s[i] = t[i]

CallEnded(b) == scPc[b] \in {"ret", "unpack", "done", "raised"}

\* The layers are consulted in the order cache, mirror, upstream, and a
\* layer is contacted only while no earlier layer has produced a file.
C14_OrderOfLayers ==
    \A b \in Builders :
        /\ IsPrefix(scTrace[b], Layers)
        /\ scPc[b] \in {"repo_open", "up_open", "fetch"} => scPkg[b] = "None"

\* The last transfer of the builder was from the mirror and failed.
MirrorFailed(b) ==
    /\ scFetch[b].layer = "repo"
    /\ scFetch[b].resp \in {"connect_fail", "stream_fail"}

\* C14: find_and_retrieve consults cache, mirror, upstream in this order, a
\* hit ends the search, and a transport failure at the mirror never
\* prevents the upstream attempt when an upstream URL is known.
C14_LayerOrder ==
    /\ C14_OrderOfLayers
    /\ \A b \in Builders :
          (CallEnded(b) /\ scCall[b].upstream_source = "url")
              => ~MirrorFailed(b)

\* C14 for a mirror that fails when the connection is made (URLError).
C14_ConnectFailureFallsThrough ==
    \A b \in Builders :
        (CallEnded(b) /\ scCall[b].upstream_source = "url")
            => ~(scFetch[b].layer = "repo"
                    /\ scFetch[b].resp = "connect_fail")

(***************************************************************************)
(* Claims on the failure path of the downloader.                           *)
(***************************************************************************)
FailedReturn == dlPc = "idle" /\ dlResult = "error"

\* The blob of the tag is the file this call created.
FreshBlob == dlFs[dlTag] = FileOf(dlCur)

LinkTargetsTag == dlFs[LinkName].kind = "link" /\ dlFs[LinkName].target = dlTag

\* C15, first half: after a failed call the temporary file is gone.
C15_TempFileGone == FailedReturn => dlFs[TmpName] = Absent

\* C15: after a failed call the temporary file no longer exists, and a blob
\* the call created that is not the target of the symlink no longer exists,
\* also when there was no symlink before the call.
C15_FailureCleanup ==
    FailedReturn =>
        /\ dlFs[TmpName] = Absent
        /\ ~(FreshBlob /\ ~LinkTargetsTag)

\* C15 for calls that found a symlink in place.
C15_CleanupWithSymlink ==
    (FailedReturn /\ dlFs[LinkName].kind = "link") =>
        /\ dlFs[TmpName] = Absent
        /\ ~(FreshBlob /\ ~LinkTargetsTag)

(***************************************************************************)
(* Claims on the local candidate of unpack.                                *)
(***************************************************************************)
\* The local archive file exists and its SHA-256 is not the declared one.
LocalMismatch == scLocal = "bad" \/ (scLocal = "good" /\ scDeclared = "")

\* C16, last part: the mismatching local copy is never unpacked.
C16_MismatchNeverUnpacked ==
    LocalMismatch => \A b \in Builders : scPkg[b] # "local"

\* C16: with a local archive file whose SHA-256 differs from the declared
\* one, unpack fails; it uses neither the source cache nor the network for
\* that source, and the mismatching copy is never unpacked.
C16_LocalMismatchIsFatal ==
    LocalMismatch =>
        \A b \in Builders :
            /\ scCall[b].mode # "locate" \/ scTrace[b] = <<>>
            /\ scCall[b].mode = "locate" => scPc[b] # "done"
            /\ scPkg[b] # "local"

(***************************************************************************)
(* Claims on the members of data.tar.gz.                                   *)
(***************************************************************************)
\* write_data_part of the primary package has returned.
DataWritten == bpPc \in {"control", "ar", "dbg", "done"}

\* The content entries that share (dev, ino) with entry j, nlink > 1.
GroupOf(j) ==
    {i \in 1..Len(bpContents) :
        /\ bpContents[i].stats.dev = bpContents[j].stats.dev
        /\ bpContents[i].stats.ino = bpContents[j].stats.ino
        /\ bpContents[i].stats.nlink > 1}

FirstOf(group) == CHOOSE i \in group : \A k \in group : i <= k

\* The group is written as one regular file with data, the first, and
\* hardlink members without data that point at it.
OneFileRestLinks(group) ==
    /\ bpData[FirstOf(group)].type = "file"
    /\ bpData[FirstOf(group)].data
    /\ \A k \in group \ {FirstOf(group)} :
        /\ bpData[k].type = "hardlink"
        /\ ~bpData[k].data
        /\ bpData[k].linkpath = FirstOf(group)

Unstripped(attr) ==
    attr.stats.kind = "file" /\ attr.magic.elf /\ ~attr.magic.stripped

\* The entries that name the file of entry i and were handled by the strip
\* pass: entry i itself, or the entry it is a hardlink of.
StrippedAs(i) ==
    {k \in 1..Len(bpContents) :
        /\ bpContents[k].stats.dev = bpContents[i].stats.dev
        /\ bpContents[k].stats.ino = bpContents[i].stats.ino
        /\ bpContents[k].dbg_info # NoDebug}

\* C18, on disk: once the strip pass has run, the file of every entry that
\* is an unstripped ELF object of a known machine by its recorded stats is
\* stripped.
C18_StrippedOnDisk ==
    bpPc # "expand" =>
        \A i \in 1..Len(bpContents) :
            (Unstripped(bpContents[i])
                /\ bpContents[i].magic.machine # "no machine")
                => bpDisk[bpContents[i].stats.ino].magic.stripped

\* C18, second part: with make_debug_pkgs, the companion of every stripped
\* entry, hardlinks of a stripped file included, is in the -dbg package.
C18_CompanionsPacked ==
    (bpPc = "done" /\ bpMakeDebug) =>
        \A i \in 1..Len(bpContents) :
            \A k \in StrippedAs(i) : bpContents[k].dbg_info \in bpDbg

\* C18: after the pack phase no entry of the primary package is an
\* unstripped ELF object by its recorded stats, and the debug companion of
\* every stripped entry is an entry of the -dbg package.
C18_DebugSplit ==
    bpPc = "done" =>
        /\ \A i \in 1..Len(bpContents) : ~Unstripped(bpContents[i])
        /\ bpMakeDebug =>
            \A i \in 1..Len(bpContents) :
                \A k \in StrippedAs(i) : bpContents[k].dbg_info \in bpDbg

(***************************************************************************)
(* Claims on the owner and the mtime of the members.                       *)
(***************************************************************************)
\* The primary .bolt has been written.
MainWritten == bpPc \in {"dbg", "done"}

Meta(m) ==
    [uid |-> m.uid, gid |-> m.gid, uname |-> m.uname, gname |-> m.gname,
     mtime |-> m.mtime]

\* uid, gid, uname, gname and mtime of every member of the primary package.
AllMeta ==
    {Meta(bpAr[i]) : i \in 1..Len(bpAr)}
        \cup {Meta(bpControl[i]) : i \in 1..Len(bpControl)}
        \cup {Meta(bpData[i]) : i \in 1..Len(bpData)}

\* C19, the names: uname and gname are "root" in every member, unless the
\* content entry declares an owner/group.
C19_Names ==
    MainWritten =>
        /\ \A i \in 1..Len(bpAr) :
            bpAr[i].uname = "root" /\ bpAr[i].gname = "root"
        /\ \A i \in 1..Len(bpControl) :
            bpControl[i].uname = "root" /\ bpControl[i].gname = "root"
        /\ \A i \in 1..Len(bpData) :
            bpContents[i].owner = ""
                => bpData[i].uname = "root" /\ bpData[i].gname = "root"

\* C19, control.tar.gz and the ar members: uid = gid = 0, and the members of
\* control.tar.gz carry the timestamp write_control_part took.
C19_ControlAndAr ==
    MainWritten =>
        /\ \A i \in 1..Len(bpAr) : bpAr[i].uid = 0 /\ bpAr[i].gid = 0
        /\ \A i \in 1..Len(bpControl) :
            /\ bpControl[i].uid = 0 /\ bpControl[i].gid = 0
            /\ bpControl[i].mtime = bpStamp.control

\* C19: every ar member and every member of control.tar.gz and data.tar.gz
\* has uid = gid = 0 and uname/gname "root" (unless an owner/group is
\* declared), and all members carry one mtime, a timestamp the packaging
\* process took, whatever the owner and mtime of the installed files.
C19_OwnerAndMtime ==
    MainWritten =>
        /\ \A m \in AllMeta : m.uid = 0 /\ m.gid = 0
        /\ C19_Names
        /\ \E t \in {bpStamp.data, bpStamp.control} :
            \A m \in AllMeta : m.mtime = t

(***************************************************************************)
(* Claims on the control file.                                             *)
(***************************************************************************)
\* The position of a key in an order.
IndexIn(order, key) == CHOOSE i \in 1..Len(order) : order[i] = key

\* The lines name keys of the order, each later in it than the one before.
FollowsOrder(lines, order) ==
    /\ \A i \in 1..Len(lines) : \E n \in 1..Len(order) : order[n] = lines[i].key
    /\ \A i, j \in 1..Len(lines) :
        i < j => IndexIn(order, lines[i].key) < IndexIn(order, lines[j].key)

\* C20 as stated: the control file lists its fields in the order Package,
\* Version, Source, Architecture, Maintainer, Installed-Size, Depends,
\* Provides, Conflicts, Replaces, Section, Description, absent ones skipped.
C20_FieldOrder ==
    mdPc = "written" =>
        FollowsOrder(mdControl,
            <<"Package", "Version", "Source", "Architecture", "Maintainer",
              "Installed-Size", "Depends", "Provides", "Conflicts",
              "Replaces", "Section", "Description">>)

\* C20, the order the control file has: Package, Source, Version,
\* Installed-Size, Maintainer, Architecture, Depends, Conflicts, Provides,
\* Replaces, Description, Section, absent ones skipped; and every field
\* that was set is listed.
C20_FieldOrderOfKeys ==
    mdPc = "written" =>
        /\ FollowsOrder(mdControl,
            <<"Package", "Source", "Version", "Installed-Size", "Maintainer",
              "Architecture", "Depends", "Conflicts", "Provides", "Replaces",
              "Description", "Section">>)
        /\ {mdControl[i].key : i \in 1..Len(mdControl)} = DOMAIN mdFields

\* A control file with all twelve fields has been written.
C20_Witness ==
    /\ mdPc = "written"
    /\ Len(mdControl) = 12
    /\ mdControl[8].key = "Conflicts" /\ mdControl[9].key = "Provides"

(***************************************************************************)
(* Claims on the repository index.                                         *)
(***************************************************************************)
\* Two indexes with the same keys and, for each key, the same fields with
\* the same text as value.
SameAsText(i, j) ==
    /\ DOMAIN i = DOMAIN j
    /\ \A k \in DOMAIN i :
        /\ DOMAIN i[k] = DOMAIN j[k]
        /\ \A key \in DOMAIN i[k] : i[k][key].text = j[k][key].text

\* C21 as stated: load_package_index of the text store_package_index
\* emitted for an index gives an index with the same (name, version) keys
\* and, for each key, the same fields with the same values.
C21_RoundTrip ==
    ixLoaded.done /\ ixRun.emitted => SameAsText(ixRun.index, ixLoaded.index)

\* C21 for the indexes none of whose values begins or ends with white
\* space: the round trip gives the same keys, fields and texts.
C21_RoundTripOfTrimmed ==
    /\ ixLoaded.done
    /\ ixRun.emitted
    /\ \A k \in DOMAIN ixRun.index : \A key \in DOMAIN ixRun.index[k] :
        strip(ixRun.index[k][key].text) = ixRun.index[k][key].text
    => SameAsText(ixRun.index, ixLoaded.index)

\* C22 as stated, for an indexer that loads the old index: an update of a
\* repository whose .bolt files did not change since the update before it
\* renames nothing onto Packages.gz, nor onto a Packages.sig or
\* InPackages.gz that exists.
C22_NoRewrite ==
    ixRun.ran /\ ixRun.clean /\ ~ixForceFull =>
        /\ "Packages.gz" \notin ixRun.renamed
        /\ ixRun.renamed \cap ixRun.had = {}

\* C22, what holds: a Packages.sig or InPackages.gz that exists is written
\* anew only together with Packages.gz.
C22_SignedOnlyWithBody ==
    ixRun.ran /\ ixRun.renamed \cap ixRun.had # {} =>
        "Packages.gz" \in ixRun.renamed

\* The values of the Filename lines of a body.
FilenamesOf(body) ==
    LET lines == splitlines(body)
    IN  {Drop(lines[n], 3) :
            n \in {m \in 1..Len(lines) :
                      /\ Len(lines[m]) >= 3
                      /\ Take(lines[m], 3) = <<"Filename", ":", " ">>}}

\* C23 as stated: after update_package_index has returned, every block of
\* Packages.gz names a file that exists under repo_dir.
C23_NoStaleBlock ==
    ixRun.ran /\ ~ixDirty /\ ixPackages.exists =>
        \A name \in FilenamesOf(ixPackages.body) :
            \E f \in ixPool : PathOf(f) = name

\* C23, what holds: the blocks of a Packages.gz the update wrote name
\* files that exist.
C23_WrittenBlocksExist ==
    /\ ixRun.ran /\ ~ixDirty /\ ~ixForceFull
    /\ "Packages.gz" \in ixRun.renamed
    => \A name \in FilenamesOf(ixPackages.body) :
           \E f \in ixPool : PathOf(f) = name

(***************************************************************************)
(* Claims on PackageControl.                                               *)
(***************************************************************************)
\* The call was made, of an action that builds: would_build runs nothing.
Called == ctPc # "new"

MissingUnignored == ctCall.missing /\ ~ctCall.ignore_deps

\* No shlib_deps returned for a package with a library nothing provides.
UnresolvedAborts ==
    \A i \in 1..Len(ctLog) :
        ctLog[i].op = "shlib_deps" => ctLog[i].pkg \notin ctCall.unresolved

\* The actions that build: mk_build_deps packs the list of the build
\* dependencies and would_build runs nothing.
BuildActions ==
    {"list_deps", "unpack", "prepare", "build", "install", "package",
     "repackage", "clean", "default"}

\* C24 as stated: without ignore-deps a missing build dependency and an
\* unresolved NEEDED library each end the build with UnmetDependency, with
\* ignore-deps no build ends with UnmetDependency, and while a build
\* dependency is missing, ignore-deps unset, no build action but
\* list_deps, unpack and clean runs anything.
C24_UnmetDependency ==
    Called /\ ctCall.action \in BuildActions =>
        /\ MissingUnignored /\ ~ctCall.skip
           /\ ctCall.action \notin {"list_deps", "unpack", "clean"}
           => ctErr = "UnmetDependency"
        /\ ~ctCall.ignore_deps => UnresolvedAborts
        /\ ctCall.ignore_deps => ctErr # "UnmetDependency"
        /\ MissingUnignored
           /\ ctCall.action \notin {"list_deps", "unpack", "clean"}
           => ctLog = <<>> /\ ctTodo = <<>>

\* C24, what holds of a missing build dependency: ignore-deps unset, every
\* action but those __call__ leaves unchecked ends with UnmetDependency (or
\* SkipBuild, or the return of would_build) before it runs anything; with
\* ignore-deps set UnmetDependency comes from shlib_deps only, which raises
\* it for an unresolved NEEDED library, ignore-deps set or not.
C24_MissingBuildDependency ==
    Called =>
        /\ UnresolvedAborts
        /\ MissingUnignored /\ ctCall.action \notin Unchecked(ctCall.variant)
           => /\ ctLog = <<>> /\ ctTodo = <<>>
              /\ ctErr = IF ctCall.skip THEN "SkipBuild"
                         ELSE IF ctCall.action = "would_build" THEN "none"
                         ELSE "UnmetDependency"
        /\ ctCall.ignore_deps /\ ctErr = "UnmetDependency"
           => ctLog # <<>> /\ ctCall.unresolved # {}

\* The place of a step of the package phase in the order of the claim.
Rank(op) ==
    CASE op = "expand" -> 1 [] op = "strip" -> 2 [] op = "overlay" -> 3
      [] op = "shlib_deps" -> 4 [] op = "do_pack" -> 5 [] OTHER -> 0

PhaseActions == {"package", "repackage", "default"}

Logged(op, p) == \E i \in 1..Len(ctLog) : ctLog[i] = [op |-> op, pkg |-> p]

CacheOwners ==
    {dpCall.cands[i].pkg : i \in
        {j \in 1..Len(dpCall.cands) :
            /\ dpCall.cands[j].word = dpCall.word_size
            /\ dpCall.cands[j].pkg # "None"
            /\ dpCall.cands[j].version # "None"}}

\* The names the last call added to the relation.
Registered == DOMAIN dpSpec.index \ DOMAIN dpCall.before.index

\* C26 as stated: the call registers dependencies on owners of a matching
\* library of the cache, or else on the built package that holds the
\* library, never on the package itself, and it raises UnmetDependency
\* exactly when neither the cache nor a built package provides the library
\* (and no other error).
C26_Resolution ==
    dpCall.done =>
        /\ Registered \subseteq
               IF CacheOwners # {} THEN CacheOwners
               ELSE {FirstHolder(dpCall.holders)}
        /\ "me" \notin Registered
        /\ dpErr = IF CacheOwners = {} /\ dpCall.holders = {}
                   THEN "UnmetDependency" ELSE "none"
        /\ CacheOwners = {} /\ FirstHolder(dpCall.holders) = "other"
           => "other" \in DOMAIN dpSpec.index

\* C26, what holds: when the cache has a matching library, the call
\* registers owners of matching libraries only, never the package itself,
\* and raises nothing; when neither provides the library it raises
\* UnmetDependency.
C26_CacheResolution ==
    dpCall.done =>
        /\ CacheOwners # {} =>
            /\ Registered \subseteq CacheOwners \ {"me"}
            /\ "me" \notin CacheOwners => CacheOwners \subseteq DOMAIN dpSpec.index
            /\ dpErr = "none"
        /\ CacheOwners = {} /\ dpCall.holders = {}
           => dpErr = "UnmetDependency" /\ Registered = {}

\* The groups the assignments added, after those of from_xml.
Assigned == Drop(dpSpec.list, Len(dpDeclared.list))

\* C30: an assignment changes nothing that is in the relation (the groups
\* of the list and the indexed dependencies stay as they are) and adds a
\* name only when it is not indexed; every name so added is in exactly one
\* group added by assignment, a group of its own, and a declared name is
\* in none.
C30_Invariant ==
    /\ Len(dpSpec.list) >= Len(dpDeclared.list)
    /\ Take(dpSpec.list, Len(dpDeclared.list)) = dpDeclared.list
    /\ \A n \in DOMAIN dpDeclared.index :
        /\ n \in DOMAIN dpSpec.index
        /\ dpSpec.index[n] = dpDeclared.index[n]
        /\ \A i \in 1..Len(Assigned) : Assigned[i][1].name # n
    /\ \A i \in 1..Len(Assigned) :
        /\ Len(Assigned[i]) = 1
        /\ Assigned[i][1].name \in DOMAIN dpSpec.index
        /\ dpSpec.index[Assigned[i][1].name] = Assigned[i][1]
        /\ \A j \in 1..Len(Assigned) :
            Assigned[j][1].name = Assigned[i][1].name => j = i
    /\ \A n \in DOMAIN dpSpec.index \ DOMAIN dpDeclared.index :
        \E i \in 1..Len(Assigned) : Assigned[i][1].name = n

C30_Frame ==
    dpPc = "declared" =>
        /\ Take(dpSpec'.list, Len(dpSpec.list)) = dpSpec.list
        /\ \A n \in DOMAIN dpSpec.index :
            n \in DOMAIN dpSpec'.index /\ dpSpec'.index[n] = dpSpec.index[n]

C30_Assignment == []C30_Invariant /\ [][C30_Frame]_dpVars

\* A call met a library of a package that is already in the relation, with
\* another constraint than the one the call would register.
C30_Witness ==
    /\ dpCall.done
    /\ "other" \in CacheOwners
    /\ "other" \in DOMAIN dpDeclared.index
    /\ dpSpec.index["other"].version # <<">=", "1">>
    /\ Len(Assigned) > 0

(***************************************************************************)
(* Claims on unpack_to_disk.                                               *)
(***************************************************************************)
\* A place in base_dir or below it.
InBase(place) ==
    Len(place) >= Len(base_dir) /\ Take(place, Len(base_dir)) = base_dir

\* C27 as stated: unpack_to_disk creates nothing outside base_dir, for
\* every pathname of an entry and every strip_components.
C27_InsideBase == \A place \in uaMade : InBase(place)

\* C27, what holds: an entry whose pathname, the leading "./" or "../"
\* removed and the stripped components dropped, has no ".." component is
\* created inside base_dir, a leading slash included.
C27_InsideWithoutDotDot ==
    LET parts == TargetParts(uaEntry.pathname, uaStrip)
    IN  (\A i \in 1..Len(parts) : parts[i] # <<".", ".">>)
            => \A place \in uaMade : InBase(place)

(***************************************************************************)
(* Claims on generate_file_list.                                           *)
(***************************************************************************)
\* The paths a declaration matches.
MatchedBy(decl) ==
    IF decl.deftype = "dir" THEN {decl.src.path}
    ELSE IF decl.src.star
    THEN {p \in flDisk : Len(p) = Len(decl.src.path) + 1
                            /\ IsPrefix(decl.src.path, p)}
    ELSE {p \in flDisk : IsPrefix(decl.src.path, p)}

Matched == UNION {MatchedBy(flSpec[i]) : i \in 1..Len(flSpec)}

\* The directories above the matched paths that exist on disk.
ExistingAncestors ==
    {a \in flDisk : \E p \in Matched : Len(a) < Len(p) /\ IsPrefix(a, p)}

ListedPaths == {flContents[i].path : i \in 1..Len(flContents)}

SortedByPath ==
    \A i, j \in 1..Len(flContents) :
        i < j => PathBefore(flContents[i].path, flContents[j].path)

\* The single declaration <file src="/usr/bin/*" mode="0755"/> over a
\* basedir holding usr/bin/foo and usr/bin/bar.
ExampleDeclared ==
    /\ flSpec = <<[deftype |-> "file",
                   src |-> [path |-> <<"usr", "bin">>, star |-> TRUE],
                   mode |-> "0755"]>>
    /\ flDisk = {<<>>, <<"usr">>, <<"usr", "bin">>,
                 <<"usr", "bin", "bar">>, <<"usr", "bin", "foo">>}

ExampleModes ==
    \A i \in 1..Len(flContents) :
        flContents[i].path \in RegularFiles
            => flContents[i].deftype = "file" /\ flContents[i].mode = "0755"

InterruptedAndLeft == spIntr.exc # "none" /\ spPc = "raised"

CleanedUp ==
    /\ spKilled
    /\ spChild = "reaped"
    /\ ~spOthers
    /\ spRaised = spIntr.exc

\* C29 as stated: when the parent is interrupted at any point of run,
\* after the child was reaped included, the group of the child is sent
\* SIGKILL, the child is reaped and the interrupt is raised to the caller:
\* no child is left running or unreaped, no other exception replaces the
\* interrupt.
C29_InterruptCleansUp == InterruptedAndLeft => CleanedUp

\* C29, what holds: an interrupt inside the try statement, while the child
\* is not yet reaped, kills the group, reaps the child and is raised again.
C29_InterruptBeforeReaped ==
    InterruptedAndLeft /\ spIntr.at \in InsideTry /\ ~spIntr.reaped
        => CleanedUp

\* C29, what holds: an interrupt after the child was reaped never leaves
\* run as itself.
C29_InterruptAfterReapedReplaced ==
    InterruptedAndLeft /\ spIntr.reaped
        => spRaised \in {"ProcessLookupError", "ChildProcessError"}

====
